---- MODULE Spec2Model ----
(***************************************************************************)
(* Model of the derived-state engine of foodai: StorageManager             *)
(* (src/js/storage.js) over localStorage, and the handlers of FoodAIApp    *)
(* (src/js/app.js) that drive it.                                          *)
(*                                                                         *)
(* Time.  `clock` is the value of Date.now(), counted in minutes (the      *)
(* resolution of the model; two calls at the same clock value are two      *)
(* calls within the same tick of Date.now()).  An ISO timestamp            *)
(* (toISOString()) is represented by the instant it denotes, and an ISO    *)
(* date string 'YYYY-MM-DD' by the number of the UTC day it denotes:       *)
(* toISOString() prints UTC, so .split('T')[0] is the UTC calendar day,    *)
(* and comparing two such strings compares the day numbers.                *)
(* Date.setDate(getDate() - k) and Date.setHours(getHours() + h) work on   *)
(* local wall-clock fields; the model takes a host timezone with a fixed   *)
(* offset from UTC (no daylight-saving switch), where they move the        *)
(* instant by exactly k days and h hours.                                  *)
(*                                                                         *)
(* Numbers.  Nutrient values are whole numbers; the ratios the code        *)
(* compares with decimal constants (0.1, 0.15, 0.3, 40 %, ...) are         *)
(* compared exactly, by cross-multiplication.                              *)
(***************************************************************************)
EXTENDS Integers, Sequences, FiniteSets, TLC

VARIABLES
    clock,          \* Date.now(), in minutes
    present,        \* the keys of this.KEYS that localStorage holds
    meals,          \* parsed value of foodai_meals (<<>> when absent)
    settings,       \* parsed value of foodai_settings
    badges,         \* parsed value of foodai_badges
    achievements,   \* parsed value of foodai_achievements
    fasting,        \* parsed value of foodai_fasting
    ret,            \* what the last call returned to its caller
    granted,        \* history: badge ids returned in newBadges so far
    corrupt         \* the keys whose stored string is not parseable JSON

vars == <<clock, present, meals, settings, badges, achievements, fasting, ret, granted,
          corrupt>>

(***************************************************************************)
(* Bounds of the model.                                                    *)
(***************************************************************************)
MaxDay == 2             \* Spec, SpecLedger: the clock stays within days 0 .. MaxDay
MaxMeals == 3           \* a meal is recorded only while the ledger is shorter
MaxCount == 1           \* Spec: a meal is recorded only while the lifetime counters
                        \* are not above
StreakDays == 7         \* SpecStreak: the clock stays within days 0 .. StreakDays
FastingHours == 24      \* SpecFasting: the clock stays within hours 0 .. FastingHours

MinPerHour == 60
MinPerDay == 24 * MinPerHour

(***************************************************************************)
(* Helpers over sequences.                                                 *)
(***************************************************************************)
\* total + (meal[f] || 0) over the meals of s
RECURSIVE SumBy(_, _)
SumBy(s, f) ==
    IF s = <<>> THEN 0
    ELSE (IF f \in DOMAIN s[1] THEN s[1][f] ELSE 0) + SumBy(Tail(s), f)

Range(s) == {s[i] : i \in 1..Len(s)}

Max(a, b) == IF a >= b THEN a ELSE b
Min(a, b) == IF a <= b THEN a ELSE b
Abs(a) == IF a >= 0 THEN a ELSE -a

(***************************************************************************)
(* Dates.                                                                  *)
(***************************************************************************)
\* new Date().toISOString().split('T')[0]
ISODate(t) == t \div MinPerDay

\* checkDate.setDate(checkDate.getDate() - k); ...toISOString().split('T')[0]
MinusDays(d, k) == d - k

(***************************************************************************)
(* The keys of the store and the values read for them.                     *)
(***************************************************************************)
KEYS == {"meals", "settings", "user_info", "badges", "achievements", "fasting"}

initialAchievements ==
    [streak |-> 0, maxStreak |-> 0, goalAchieved |-> 0,
     perfectWeeks |-> 0, vegetableDays |-> 0, proteinDays |-> 0]

initialFasting ==
    [enabled |-> FALSE, mode |-> "16:8",
     fastingStartTime |-> <<>>, fastingEndTime |-> <<>>,
     eatingStartTime |-> <<>>, eatingEndTime |-> <<>>, isActive |-> FALSE]

defaultSettings == [targetCalories |-> 2000]

getMeals == IF "meals" \in present THEN meals ELSE <<>>

getSettingsOf(p, s) == IF "settings" \in p THEN <<s>> ELSE <<>>
getSettings == getSettingsOf(present, settings)

getBadges == IF "badges" \in present THEN badges ELSE <<>>

getAchievements == IF "achievements" \in present THEN achievements ELSE initialAchievements

\* settings.targetCalories || 2000
targetCaloriesOf(s) ==
    IF "targetCalories" \in DOMAIN s /\ s.targetCalories # 0 THEN s.targetCalories ELSE 2000

(***************************************************************************)
(* Meal ledger queries.  Each takes the ledger `ms` and the instant `now`  *)
(* at which the call reads the clock.                                      *)
(***************************************************************************)
getMealsByDate(ms, date) == SelectSeq(ms, LAMBDA m : m.date = date)

getTodayMealsAt(ms, now) == getMealsByDate(ms, ISODate(now))

\* mutant of getTodayCaloriesAt: the meals of every day are summed
getTodayCaloriesAt_allDays(ms, now) == SumBy(ms, "calories")

getTodayCaloriesAt(ms, now) == SumBy(getTodayMealsAt(ms, now), "calories")

getRecentMeals(ms, now, days) ==
    LET cutoffStr == ISODate(now - days * MinPerDay)
    IN  SelectSeq(ms, LAMBDA m : m.date >= cutoffStr)

getWeeklyNutritionBalance(ms, now) ==
    LET weeklyMeals == getRecentMeals(ms, now, 7)
    IN  IF Len(weeklyMeals) = 0 THEN <<>>
        ELSE << [calories |-> SumBy(weeklyMeals, "calories"),
                 carbs    |-> SumBy(weeklyMeals, "carbs"),
                 protein  |-> SumBy(weeklyMeals, "protein"),
                 fat      |-> SumBy(weeklyMeals, "fat"),
                 sodium   |-> SumBy(weeklyMeals, "sodium"),
                 days     |-> Cardinality({m.date : m \in Range(weeklyMeals)})] >>

(***************************************************************************)
(* calculateWeeklyNutritionScore.  The result is the record the code       *)
(* returns; details has no macroBalance field when the macro step is       *)
(* skipped; feedback holds one tag per pushed note, in the order pushed.   *)
(***************************************************************************)
\* mutant of emptyScore: a window without data is reported as -1
emptyScore_sentinel ==
    [score |-> -1,
     details |-> [macroBalance |-> 0, calorieConsistency |-> 0,
                  sodiumControl |-> 0, proteinAdequacy |-> 0],
     feedback |-> <<>>]

emptyScore ==
    [score |-> 0,
     details |-> [macroBalance |-> 0, calorieConsistency |-> 0,
                  sodiumControl |-> 0, proteinAdequacy |-> 0],
     feedback |-> <<>>]

\* lines 295-327: the macro step, for totalMacroCal > 0
macroStep(w) ==
    LET totalCarbsCal   == w.carbs * 4
        totalProteinCal == w.protein * 4
        totalFatCal     == w.fat * 9
        totalMacroCal   == totalCarbsCal + totalProteinCal + totalFatCal
        carbsLow   == totalCarbsCal * 100 < 40 * totalMacroCal
        carbsHigh  == totalCarbsCal * 100 > 70 * totalMacroCal
        protLow    == totalProteinCal * 100 < 15 * totalMacroCal
        protHigh   == totalProteinCal * 100 > 30 * totalMacroCal
        fatHigh    == totalFatCal * 100 > 35 * totalMacroCal
        fatLow     == totalFatCal * 100 < 15 * totalMacroCal
        macroScore == 40 - (IF carbsLow \/ carbsHigh THEN 15 ELSE 0)
                         - (IF protLow THEN 15 ELSE IF protHigh THEN 5 ELSE 0)
                         - (IF fatHigh THEN 10 ELSE IF fatLow THEN 5 ELSE 0)
    IN  [macroBalance |-> Max(0, macroScore),
         feedback |-> (IF carbsHigh THEN <<"carbsHigh">> ELSE <<>>)
                   \o (IF carbsLow THEN <<"carbsLow">> ELSE <<>>)
                   \o (IF protLow THEN <<"proteinRatioLow">> ELSE <<>>)
                   \o (IF fatHigh THEN <<"fatHigh">> ELSE <<>>)]

\* lines 329-344
calorieStep(w, targetCalories) ==
    LET dev == Abs(w.calories - targetCalories * w.days)   \* |avg - target| * days
        den == targetCalories * w.days                     \* target * days
        \* calorieDeviation > r, for r = num/100, with the sign of the divisor
        above(num) == IF den > 0 THEN dev * 100 > num * den ELSE dev * 100 < num * den
    IN  IF above(30) THEN [calorieConsistency |-> 10, feedback |-> <<"calorieGap">>]
        ELSE IF above(15) THEN [calorieConsistency |-> 20, feedback |-> <<>>]
        ELSE [calorieConsistency |-> 30, feedback |-> <<>>]

\* mutant of sodiumStep: the lower limit is compared with >=
sodiumStep_inclusive(w) ==
    IF w.sodium > 2300 * w.days THEN [sodiumControl |-> 5, feedback |-> <<"sodiumHigh">>]
    ELSE IF w.sodium >= 1800 * w.days THEN [sodiumControl |-> 12, feedback |-> <<>>]
    ELSE [sodiumControl |-> 20, feedback |-> <<>>]

\* lines 346-358
sodiumStep(w) ==
    IF w.sodium > 2300 * w.days THEN [sodiumControl |-> 5, feedback |-> <<"sodiumHigh">>]
    ELSE IF w.sodium > 1800 * w.days THEN [sodiumControl |-> 12, feedback |-> <<>>]
    ELSE [sodiumControl |-> 20, feedback |-> <<>>]

\* lines 360-372
proteinStep(w) ==
    IF w.protein < 50 * w.days THEN [proteinAdequacy |-> 2, feedback |-> <<"proteinLow">>]
    ELSE IF w.protein < 60 * w.days THEN [proteinAdequacy |-> 6, feedback |-> <<>>]
    ELSE [proteinAdequacy |-> 10, feedback |-> <<>>]

\* Math.max(0, Math.min(100, Math.round(score))): score is a whole number here
clampScore(score) == Max(0, Min(100, score))

calculateWeeklyNutritionScore(ms, s, now) ==
    LET weeklyData == getWeeklyNutritionBalance(ms, now)
    IN  IF weeklyData = <<>> \/ weeklyData[1].days = 0 THEN emptyScore
        ELSE
          LET w == weeklyData[1]
              hasMacro == w.carbs * 4 + w.protein * 4 + w.fat * 9 > 0
              mac == macroStep(w)
              cal == calorieStep(w, targetCaloriesOf(s))
              sod == sodiumStep(w)
              pro == proteinStep(w)
              score0 == 100
              score1 == IF hasMacro THEN score0 - 40 + mac.macroBalance ELSE score0
              score2 == score1 - 30 + cal.calorieConsistency
              score3 == score2 - 20 + sod.sodiumControl
              score4 == score3 - 10 + pro.proteinAdequacy
          IN  [score |-> clampScore(score4),
               details |-> (IF hasMacro THEN [macroBalance |-> mac.macroBalance]
                                        ELSE [x \in {} |-> 0])
                           @@ [calorieConsistency |-> cal.calorieConsistency,
                               sodiumControl |-> sod.sodiumControl,
                               proteinAdequacy |-> pro.proteinAdequacy],
               feedback |-> (IF hasMacro THEN mac.feedback ELSE <<>>)
                            \o cal.feedback \o sod.feedback \o pro.feedback]

(***************************************************************************)
(* Achievement engine.                                                     *)
(***************************************************************************)
\* mutant of streakLoop: a day without a meal is passed over, not a stop
RECURSIVE streakLoop_noBreak(_, _, _, _, _, _)
streakLoop_noBreak(dateSet, n, today, i, checkDate, streak) ==
    IF i >= n THEN streak
    ELSE IF checkDate \in dateSet
         THEN streakLoop_noBreak(dateSet, n, today, i + 1, MinusDays(checkDate, 1), streak + 1)
         ELSE streakLoop_noBreak(dateSet, n, today, i + 1, MinusDays(checkDate, 1), streak)

\* getCurrentStreak, lines 571-586: the for loop, at index i
RECURSIVE streakLoop(_, _, _, _, _, _)
streakLoop(dateSet, n, today, i, checkDate, streak) ==
    IF i >= n THEN streak
    ELSE IF checkDate \in dateSet
         THEN streakLoop(dateSet, n, today, i + 1, MinusDays(checkDate, 1), streak + 1)
         ELSE IF i = 0 /\ checkDate = today
              THEN streakLoop(dateSet, n, today, i + 1, MinusDays(checkDate, 1), streak)
              ELSE streak

getCurrentStreakAt(ms, now) ==
    IF Len(ms) = 0 THEN 0
    ELSE LET dateSet == {m.date : m \in Range(ms)}
             today == ISODate(now)
         IN  streakLoop(dateSet, Cardinality(dateSet), today, 0, today, 0)

\* getBadgeDefinitions, in the order checkAndAwardBadges looks at them;
\* counter: "streak" is getCurrentStreak(), the others are fields of achievements
getBadgeDefinitions ==
    << [id |-> "streak3",   counter |-> "streak",        threshold |-> 3],
       [id |-> "streak7",   counter |-> "streak",        threshold |-> 7],
       [id |-> "streak14",  counter |-> "streak",        threshold |-> 14],
       [id |-> "streak30",  counter |-> "streak",        threshold |-> 30],
       [id |-> "streak100", counter |-> "streak",        threshold |-> 100],
       [id |-> "goal5",     counter |-> "goalAchieved",  threshold |-> 5],
       [id |-> "goal10",    counter |-> "goalAchieved",  threshold |-> 10],
       [id |-> "goal30",    counter |-> "goalAchieved",  threshold |-> 30],
       [id |-> "goal100",   counter |-> "goalAchieved",  threshold |-> 100],
       [id |-> "perfect1",  counter |-> "perfectWeeks",  threshold |-> 1],
       [id |-> "perfect3",  counter |-> "perfectWeeks",  threshold |-> 3],
       [id |-> "perfect10", counter |-> "perfectWeeks",  threshold |-> 10],
       [id |-> "veggie5",   counter |-> "vegetableDays", threshold |-> 5],
       [id |-> "protein7",  counter |-> "proteinDays",   threshold |-> 7] >>

BadgeIds(bs) == {b.id : b \in Range(bs)}

\* the counter a catalog entry is compared with
counterOf(def, ach, streak) == IF def.counter = "streak" THEN streak ELSE ach[def.counter]

\* mutant of awardable: the entry is not looked up among the earned badges
awardable_noLookup(def, ach, currentBadges, streak) ==
    counterOf(def, ach, streak) >= def.threshold

\* mutant of awardable: the counter has to be above the threshold
awardable_strict(def, ach, currentBadges, streak) ==
    /\ counterOf(def, ach, streak) > def.threshold
    /\ ~ \E b \in Range(currentBadges) : b.id = def.id

\* the condition under which checkAndAwardBadges pushes a catalog entry
awardable(def, ach, currentBadges, streak) ==
    /\ counterOf(def, ach, streak) >= def.threshold
    /\ ~ \E b \in Range(currentBadges) : b.id = def.id

\* checkAndAwardBadges: the newBadges array
RECURSIVE newBadgesFrom(_, _, _, _, _)
newBadgesFrom(defs, ach, currentBadges, streak, now) ==
    IF defs = <<>> THEN <<>>
    ELSE (IF awardable(defs[1], ach, currentBadges, streak)
          THEN << [id |-> defs[1].id, threshold |-> defs[1].threshold, earnedAt |-> now] >>
          ELSE <<>>)
         \o newBadgesFrom(Tail(defs), ach, currentBadges, streak, now)

checkAndAwardBadges(ach, currentBadges, streak, now) ==
    newBadgesFrom(getBadgeDefinitions, ach, currentBadges, streak, now)

\* mutant of allBadges: the new badges overwrite the stored ones
allBadges_overwrite(currentBadges, newBadges) == newBadges

\* checkAndAwardBadges, line 524: [...currentBadges, ...newBadges]
allBadges(currentBadges, newBadges) == currentBadges \o newBadges

\* /.../.test(meal.name): the names of the model that contain one of the
\* keywords (saelleodeu, chaeso, yachae, sangchu, yangsangchu, beurokolli, sigeumchi)
hasVeggie(name) == name \in {"saelleodeu", "dak-gaseumsal saelleodeu"}

\* saveMeal, lines 67-72
mealDataOf(meal, now) ==
    [id |-> now, timestamp |-> now, date |-> ISODate(now)] @@ meal

\* mutant of unshift: the meal is pushed at the end
unshift_push(ms, mealData) == Append(ms, mealData)

\* saveMeal, line 73: meals.unshift(mealData)
unshift(ms, mealData) == <<mealData>> \o ms

\* mutant of maxStreakOf: maxStreak follows the streak
maxStreakOf_current(maxStreak, streak) == streak

\* mutant of maxStreakOf: the stored maximum is kept
maxStreakOf_stored(maxStreak, streak) == maxStreak

\* saveMealWithAchievements, line 600: Math.max(achievements.maxStreak, streak)
maxStreakOf(maxStreak, streak) == Max(maxStreak, streak)

\* mutant of updatedAchievements: the target is taken as stored, without || 2000
updatedAchievements_noDefault(ach, ms, s, meal, now) ==
    LET streak == getCurrentStreakAt(ms, now)
        todayCalories == getTodayCaloriesAt(ms, now)
        targetCalories == IF "targetCalories" \in DOMAIN s THEN s.targetCalories ELSE 0
        dev == Abs(todayCalories - targetCalories)
        goalHit == IF targetCalories > 0 THEN dev * 10 <= targetCalories
                                         ELSE targetCalories < 0
        weeklyScore == calculateWeeklyNutritionScore(ms, s, now)
    IN  [streak        |-> streak,
         maxStreak     |-> maxStreakOf(ach.maxStreak, streak),
         goalAchieved  |-> IF goalHit THEN ach.goalAchieved + 1 ELSE ach.goalAchieved,
         perfectWeeks  |-> IF weeklyScore.score >= 90 THEN ach.perfectWeeks + 1
                                                     ELSE ach.perfectWeeks,
         vegetableDays |-> IF hasVeggie(meal.name) THEN ach.vegetableDays + 1
                                                  ELSE ach.vegetableDays,
         proteinDays   |-> IF meal.protein >= 20 THEN ach.proteinDays + 1
                                                 ELSE ach.proteinDays]

\* mutant of updatedAchievements: the weekly score is taken before the meal is stored
updatedAchievements_priorScore(ach, ms, s, meal, now) ==
    LET streak == getCurrentStreakAt(ms, now)
        todayCalories == getTodayCaloriesAt(ms, now)
        targetCalories == targetCaloriesOf(s)
        dev == Abs(todayCalories - targetCalories)
        goalHit == IF targetCalories > 0 THEN dev * 10 <= targetCalories
                                         ELSE dev * 10 >= targetCalories
        weeklyScore == calculateWeeklyNutritionScore(Tail(ms), s, now)
    IN  [streak        |-> streak,
         maxStreak     |-> maxStreakOf(ach.maxStreak, streak),
         goalAchieved  |-> IF goalHit THEN ach.goalAchieved + 1 ELSE ach.goalAchieved,
         perfectWeeks  |-> IF weeklyScore.score >= 90 THEN ach.perfectWeeks + 1
                                                     ELSE ach.perfectWeeks,
         vegetableDays |-> IF hasVeggie(meal.name) THEN ach.vegetableDays + 1
                                                  ELSE ach.vegetableDays,
         proteinDays   |-> IF meal.protein >= 20 THEN ach.proteinDays + 1
                                                 ELSE ach.proteinDays]

\* mutant of updatedAchievements: a second qualifying meal of a day does not count
updatedAchievements_oncePerDay(ach, ms, s, meal, now) ==
    LET streak == getCurrentStreakAt(ms, now)
        todayCalories == getTodayCaloriesAt(ms, now)
        targetCalories == targetCaloriesOf(s)
        dev == Abs(todayCalories - targetCalories)
        goalHit == IF targetCalories > 0 THEN dev * 10 <= targetCalories
                                         ELSE dev * 10 >= targetCalories
        today == getTodayMealsAt(ms, now)
        veggieToday == Len(SelectSeq(today, LAMBDA m : hasVeggie(m.name)))
        proteinToday == Len(SelectSeq(today, LAMBDA m : m.protein >= 20))
        weeklyScore == calculateWeeklyNutritionScore(ms, s, now)
    IN  [streak        |-> streak,
         maxStreak     |-> maxStreakOf(ach.maxStreak, streak),
         goalAchieved  |-> IF goalHit THEN ach.goalAchieved + 1 ELSE ach.goalAchieved,
         perfectWeeks  |-> IF weeklyScore.score >= 90 THEN ach.perfectWeeks + 1
                                                     ELSE ach.perfectWeeks,
         vegetableDays |-> IF hasVeggie(meal.name) /\ veggieToday = 1 THEN ach.vegetableDays + 1
                                                  ELSE ach.vegetableDays,
         proteinDays   |-> IF meal.protein >= 20 /\ proteinToday = 1 THEN ach.proteinDays + 1
                                                 ELSE ach.proteinDays]

\* saveMealWithAchievements, lines 596-627: the updates object merged into
\* the stored achievements (updateAchievements), given the ledger after saveMeal
updatedAchievements(ach, ms, s, meal, now) ==
    LET streak == getCurrentStreakAt(ms, now)
        todayCalories == getTodayCaloriesAt(ms, now)
        targetCalories == targetCaloriesOf(s)
        dev == Abs(todayCalories - targetCalories)
        goalHit == IF targetCalories > 0 THEN dev * 10 <= targetCalories
                                         ELSE dev * 10 >= targetCalories
        weeklyScore == calculateWeeklyNutritionScore(ms, s, now)
    IN  [streak        |-> streak,
         maxStreak     |-> maxStreakOf(ach.maxStreak, streak),
         goalAchieved  |-> IF goalHit THEN ach.goalAchieved + 1 ELSE ach.goalAchieved,
         perfectWeeks  |-> IF weeklyScore.score >= 90 THEN ach.perfectWeeks + 1
                                                     ELSE ach.perfectWeeks,
         vegetableDays |-> IF hasVeggie(meal.name) THEN ach.vegetableDays + 1
                                                  ELSE ach.vegetableDays,
         proteinDays   |-> IF meal.protein >= 20 THEN ach.proteinDays + 1
                                                 ELSE ach.proteinDays]

(***************************************************************************)
(* Inputs of the model.                                                    *)
(***************************************************************************)
\* the meal objects handed to saveMeal / saveMealWithAchievements (name and
\* the five numeric fields; mealType is carried along and never read)
Bibimbap == [name |-> "bibimbap", calories |-> 2000, carbs |-> 198, protein |-> 72,
             fat |-> 40, sodium |-> 1800]
Ramyeon  == [name |-> "ramyeon", calories |-> 500, carbs |-> 70, protein |-> 10,
             fat |-> 20, sodium |-> 2500]
Salad    == [name |-> "saelleodeu", calories |-> 100, carbs |-> 10, protein |-> 5,
             fat |-> 2, sodium |-> 100]
Water    == [name |-> "mul", calories |-> 0, carbs |-> 0, protein |-> 0,
             fat |-> 0, sodium |-> 0]

\* the settings objects FoodAIApp.saveSettings builds (only targetCalories is
\* read by the engine)
SettingsChoices == {[targetCalories |-> 1000]}

\* the strings handed to importData: what JSON.parse makes of them
MalformedDoc == [json |-> "malformed"]
NullDoc      == [json |-> "null"]
MealsDoc     == [json |-> "object", fields |-> [meals |-> << mealDataOf(Bibimbap, 0) >>]]
FullDoc      == [json |-> "object",
                 fields |-> [meals |-> << mealDataOf(Ramyeon, 0) >>,
                             settings |-> [goal |-> "lose"], exportDate |-> 0]]

\* {"settings": {...}}, {} and {"meals": null, "settings": null, "exportDate": 0}
SettingsDoc  == [json |-> "object", fields |-> [settings |-> [targetCalories |-> 1000]]]
EmptyDoc     == [json |-> "object", fields |-> [exportDate |-> 0]]
NullFieldsDoc == [json |-> "object", fields |-> [exportDate |-> 0],
                  nulls |-> {"meals", "settings"}]

\* the fields of a document whose value is null
nullsOf(doc) == IF "nulls" \in DOMAIN doc THEN doc.nulls ELSE {}

NoRet == [op |-> "none"]

(***************************************************************************)
(* Operations of StorageManager.  Each reads the clock once.               *)
(***************************************************************************)
\* JSON.parse(data) of one of the keys throws
parseFails(keys) == keys \cap corrupt # {}

\* the SyntaxError of JSON.parse reaches the caller before anything is written
syntaxError ==
    /\ ret' = [op |-> "SyntaxError", threw |-> TRUE]
    /\ UNCHANGED <<clock, present, meals, settings, badges, achievements, fasting, granted,
                   corrupt>>

\* constructor, lines 4-17, on an empty localStorage
Init ==
    /\ clock = 0
    /\ present = {"settings", "badges", "achievements", "fasting"}
    /\ meals = <<>>
    /\ settings = defaultSettings
    /\ badges = <<>>
    /\ achievements = initialAchievements
    /\ fasting = initialFasting
    /\ ret = NoRet
    /\ granted = {}
    /\ corrupt = {}

saveMeal(meal) ==
    LET mealData == mealDataOf(meal, clock)
    IN  IF parseFails({"meals"}) THEN syntaxError
        ELSE /\ meals' = unshift(getMeals, mealData)
             /\ present' = present \cup {"meals"}
             /\ ret' = [op |-> "saveMeal", mealData |-> mealData]
             /\ UNCHANGED <<clock, settings, badges, achievements, fasting, granted, corrupt>>

\* `granted` is left to the caller: it is history, not part of the store
saveMealWithAchievements(meal) ==
    LET now == clock
        mealData == mealDataOf(meal, now)
        ms1 == unshift(getMeals, mealData)
        threw == [op |-> "saveMealWithAchievements", threw |-> TRUE]
    IN  IF parseFails({"meals"})
        THEN \* saveMeal throws before it writes
             /\ ret' = threw
             /\ UNCHANGED <<clock, present, meals, settings, badges, achievements, fasting,
                            corrupt>>
        ELSE
        /\ meals' = ms1
        /\ IF getSettings = <<>> \/ parseFails({"achievements", "settings"})
           THEN \* line 605: getSettings() is null, the call throws after saveMeal
                /\ present' = present \cup {"meals"}
                /\ ret' = threw
                /\ UNCHANGED <<achievements, badges>>
           ELSE LET ach1 == updatedAchievements(getAchievements, ms1, settings, meal, now)
                    newBadges == checkAndAwardBadges(ach1, getBadges,
                                                     getCurrentStreakAt(ms1, now), now)
                IN  /\ achievements' = ach1
                    /\ IF parseFails({"badges"})
                       THEN \* checkAndAwardBadges throws after updateAchievements
                            /\ present' = present \cup {"meals", "achievements"}
                            /\ ret' = threw
                            /\ UNCHANGED badges
                       ELSE /\ badges' = IF Len(newBadges) > 0
                                         THEN allBadges(getBadges, newBadges) ELSE badges
                            /\ present' = present \cup {"meals", "achievements"}
                                      \cup (IF Len(newBadges) > 0 THEN {"badges"} ELSE {})
                            /\ ret' = [op |-> "saveMealWithAchievements", threw |-> FALSE,
                                       newBadges |->
                                           [i \in 1..Len(newBadges) |-> newBadges[i].id]]
        /\ UNCHANGED <<clock, settings, fasting, corrupt>>

\* mutant of deleteMeal: the stored streak follows the ledger
deleteMeal_recount(id) ==
    IF parseFails({"meals"}) THEN syntaxError
    ELSE /\ meals' = SelectSeq(getMeals, LAMBDA m : m.id # id)
         /\ achievements' = [getAchievements EXCEPT
                                 !.streak = getCurrentStreakAt(meals', clock)]
         /\ present' = present \cup {"meals", "achievements"}
         /\ ret' = NoRet
         /\ UNCHANGED <<clock, settings, badges, fasting, granted, corrupt>>

deleteMeal(id) ==
    IF parseFails({"meals"}) THEN syntaxError
    ELSE /\ meals' = SelectSeq(getMeals, LAMBDA m : m.id # id)
         /\ present' = present \cup {"meals"}
         /\ ret' = NoRet
         /\ UNCHANGED <<clock, settings, badges, achievements, fasting, granted, corrupt>>

saveSettings(s) ==
    /\ settings' = s
    /\ present' = present \cup {"settings"}
    /\ ret' = NoRet
    /\ corrupt' = corrupt \ {"settings"}
    /\ UNCHANGED <<clock, meals, badges, achievements, fasting, granted>>

\* mutant of importData: a failed import leaves the ledger empty
importData_partial(doc) ==
    IF doc.json # "object"
    THEN /\ ret' = [op |-> "importData", value |-> FALSE]
         /\ meals' = <<>>
         /\ UNCHANGED <<clock, present, settings, badges, achievements, fasting, granted,
                        corrupt>>
    ELSE /\ ret' = [op |-> "importData", value |-> TRUE]
         /\ UNCHANGED <<clock, present, meals, settings, badges, achievements, fasting,
                        granted, corrupt>>

\* mutant of importData: a field whose value is null is written like any other
importData_nulls(doc) ==
    IF doc.json # "object"
    THEN /\ ret' = [op |-> "importData", value |-> FALSE]
         /\ UNCHANGED <<clock, present, meals, settings, badges, achievements, fasting,
                        granted, corrupt>>
    ELSE LET data == doc.fields
             hasMeals == "meals" \in DOMAIN data \cup nullsOf(doc)
             hasSettings == "settings" \in DOMAIN data \cup nullsOf(doc)
         IN  /\ meals' = IF "meals" \in DOMAIN data THEN data.meals
                         ELSE IF hasMeals THEN <<>> ELSE meals
             /\ settings' = IF "settings" \in DOMAIN data THEN data.settings
                            ELSE IF hasSettings THEN defaultSettings ELSE settings
             /\ present' = present \cup (IF hasMeals THEN {"meals"} ELSE {})
                                   \cup (IF hasSettings THEN {"settings"} ELSE {})
             /\ corrupt' = corrupt \ ((IF hasMeals THEN {"meals"} ELSE {})
                                        \cup (IF hasSettings THEN {"settings"} ELSE {}))
             /\ ret' = [op |-> "importData", value |-> TRUE]
             /\ UNCHANGED <<clock, badges, achievements, fasting, granted>>

\* data.meals and data.settings are written when truthy: doc.fields holds the
\* fields with a truthy value, nullsOf(doc) those that are null
importData(doc) ==
    IF doc.json # "object"
    THEN \* JSON.parse throws, or data is null and data.meals throws
         /\ ret' = [op |-> "importData", value |-> FALSE]
         /\ UNCHANGED <<clock, present, meals, settings, badges, achievements, fasting, granted,
                        corrupt>>
    ELSE LET data == doc.fields
             hasMeals == "meals" \in DOMAIN data
             hasSettings == "settings" \in DOMAIN data
         IN  /\ meals' = IF hasMeals THEN data.meals ELSE meals
             /\ settings' = IF hasSettings THEN data.settings ELSE settings
             /\ present' = present \cup (IF hasMeals THEN {"meals"} ELSE {})
                                   \cup (IF hasSettings THEN {"settings"} ELSE {})
             /\ corrupt' = corrupt \ ((IF hasMeals THEN {"meals"} ELSE {})
                                        \cup (IF hasSettings THEN {"settings"} ELSE {}))
             /\ ret' = [op |-> "importData", value |-> TRUE]
             /\ UNCHANGED <<clock, badges, achievements, fasting, granted>>

\* mutant of clearAllData: the keys are removed and no default is written
clearAllData_noDefaults ==
    /\ present' = {}
    /\ settings' = defaultSettings
    /\ meals' = <<>>
    /\ badges' = <<>>
    /\ achievements' = initialAchievements
    /\ fasting' = initialFasting
    /\ ret' = NoRet
    /\ corrupt' = {}
    /\ UNCHANGED <<clock, granted>>

\* removeItem for every key but the API key, then initDefaults()
clearAllData ==
    /\ present' = {"settings"}
    /\ settings' = defaultSettings
    /\ meals' = <<>>
    /\ badges' = <<>>
    /\ achievements' = initialAchievements
    /\ fasting' = initialFasting
    /\ ret' = NoRet
    /\ corrupt' = {}
    /\ UNCHANGED <<clock, granted>>

\* mutant of advanceClock: the stored dates follow the clock
advanceClock_redate(delta) ==
    /\ clock' = clock + delta
    /\ meals' = [i \in 1..Len(meals) |-> [meals[i] EXCEPT !.date = ISODate(clock + delta)]]
    /\ UNCHANGED <<present, settings, badges, achievements, fasting, ret, granted, corrupt>>

\* the clock moves on by delta minutes
advanceClock(delta) ==
    /\ clock' = clock + delta
    /\ UNCHANGED <<present, meals, settings, badges, achievements, fasting, ret, granted,
                   corrupt>>

\* the queries, read at the current clock
getTodayMeals == getTodayMealsAt(getMeals, clock)
getCurrentStreak == getCurrentStreakAt(getMeals, clock)

(***************************************************************************)
(* Spec: the achievement engine under every operation that reaches it.     *)
(***************************************************************************)
countersBelow(n) ==
    LET a == getAchievements
    IN  a.goalAchieved <= n /\ a.perfectWeeks <= n /\ a.vegetableDays <= n /\ a.proteinDays <= n

RecordMeal ==
    /\ Len(getMeals) < MaxMeals
    /\ countersBelow(MaxCount)
    /\ \E meal \in {Bibimbap, Ramyeon} : saveMealWithAchievements(meal)
    /\ UNCHANGED granted

DeleteMeal == \E id \in {m.id : m \in Range(getMeals)} \cup {-1} : deleteMeal(id)

SaveSettings == \E s \in SettingsChoices : saveSettings(s)

ImportData == \E doc \in {MalformedDoc, MealsDoc} : importData(doc)

ClearAllData == clearAllData

NextDay ==
    /\ ISODate(clock + MinPerDay) <= MaxDay
    /\ advanceClock(MinPerDay)

Next ==
    \/ RecordMeal
    \/ DeleteMeal
    \/ SaveSettings
    \/ ImportData
    \/ ClearAllData
    \/ NextDay

Spec == Init /\ [][Next]_vars

(***************************************************************************)
(* SpecStreak: one meal a day at most, over StreakDays days; `granted`     *)
(* records the badge ids the calls have returned.                          *)
(***************************************************************************)
RecordDaily ==
    /\ getTodayMeals = <<>>
    /\ saveMealWithAchievements(Ramyeon)
    /\ granted' = granted \cup Range(ret'.newBadges)

StreakNextDay ==
    /\ ISODate(clock + MinPerDay) <= StreakDays
    /\ advanceClock(MinPerDay)

NextStreak ==
    \/ RecordDaily
    \/ DeleteMeal
    \/ ClearAllData
    \/ StreakNextDay

SpecStreak == Init /\ [][NextStreak]_vars

(***************************************************************************)
(* SpecLedger: the meal ledger and its queries under saveMeal.             *)
(***************************************************************************)
LedgerRecord ==
    /\ Len(getMeals) < MaxMeals
    /\ \E meal \in {Bibimbap, Ramyeon, Salad, Water} : saveMeal(meal)

LedgerImport == \E doc \in {MalformedDoc, NullDoc, FullDoc} : importData(doc)

NextLedger ==
    \/ LedgerRecord
    \/ DeleteMeal
    \/ SaveSettings
    \/ LedgerImport
    \/ NextDay

SpecLedger == Init /\ [][NextLedger]_vars

(***************************************************************************)
(* Claims about the badges and the counters (Spec).                        *)
(***************************************************************************)
EarnedIds == BadgeIds(getBadges)

\* C1 as stated: a badge id that is in getBadges() stays in getBadges() over
\* every step, whatever the operation.
C1_BadgesNeverRemoved == [][EarnedIds \subseteq EarnedIds']_vars

\* C1 amended: a badge id that is in getBadges() stays in getBadges() over
\* every step that is not clearAllData(), also when its counter has dropped
\* below the threshold.
C1_BadgesKeptUnlessCleared == [][ClearAllData \/ EarnedIds \subseteq EarnedIds']_vars

\* streak3 is earned and the streak is below 3 again
C1_Witness == "streak3" \in EarnedIds /\ getCurrentStreak < 3 /\ getAchievements.streak < 3

\* C3: getBadges() holds no two entries with the same id.
C3_NoDuplicateBadgeIds ==
    \A i, j \in 1..Len(getBadges) : getBadges[i].id = getBadges[j].id => i = j

\* two badges are earned
C3_Witness == Len(getBadges) >= 2 /\ ret.op = "saveMealWithAchievements"

nonNegativeCounters ==
    /\ getAchievements.maxStreak >= 0
    /\ getAchievements.goalAchieved >= 0
    /\ getAchievements.perfectWeeks >= 0

countersNotDecreased ==
    /\ getAchievements'.maxStreak >= getAchievements.maxStreak
    /\ getAchievements'.goalAchieved >= getAchievements.goalAchieved
    /\ getAchievements'.perfectWeeks >= getAchievements.perfectWeeks

\* C6 as stated: maxStreak, goalAchieved and perfectWeeks are non-negative
\* and do not decrease over any step.
C6_CountersMonotone == [][countersNotDecreased /\ nonNegativeCounters']_vars

\* C6 amended: maxStreak, goalAchieved and perfectWeeks are non-negative in
\* every state and do not decrease over any step that is not clearAllData().
C6_CountersMonotoneUnlessCleared ==
    [][(ClearAllData \/ countersNotDecreased) /\ nonNegativeCounters']_vars

\* the counters have advanced and the streak is below its maximum
C6_Witness ==
    /\ getAchievements.maxStreak >= 2
    /\ getAchievements.streak < getAchievements.maxStreak
    /\ getAchievements.goalAchieved >= 1
    /\ getAchievements.perfectWeeks >= 1

(***************************************************************************)
(* Claims about the streak and the grants (SpecStreak).                    *)
(***************************************************************************)
\* the stored counter a catalog entry is compared with, after a call
storedCounter(def) ==
    IF def.counter = "streak" THEN getAchievements.streak ELSE getAchievements[def.counter]

Catalog == Range(getBadgeDefinitions)

\* C2 as stated: a call returns a catalog badge in newBadges exactly when its
\* counter is >= its threshold and no earlier call of the run has returned it.
C2_GrantedOnceEver ==
    [][RecordDaily =>
         \A def \in Catalog :
            def.id \in Range(ret'.newBadges)
               <=> (storedCounter(def)' >= def.threshold /\ def.id \notin granted)]_vars

\* C2 amended: a call returns a catalog badge in newBadges exactly when its
\* counter is >= its threshold and the badge is not in getBadges() before the
\* call, each returned badge once; a badge in getBadges() has been returned by
\* an earlier call; streak7 is returned by the call that raises the stored
\* streak from 6 to 7.
C2_GrantedWhenNotEarned ==
    [][RecordDaily =>
         /\ \A def \in Catalog :
               def.id \in Range(ret'.newBadges)
                  <=> (storedCounter(def)' >= def.threshold /\ def.id \notin EarnedIds)
         /\ \A i, j \in 1..Len(ret'.newBadges) :
               ret'.newBadges[i] = ret'.newBadges[j] => i = j
         /\ EarnedIds' \subseteq granted'
         /\ "streak7" \in Range(ret'.newBadges)
               => getAchievements.streak = 6 /\ getAchievements'.streak = 7]_vars

\* the call that raises the streak from 6 to 7 returns streak7
C2_Witness ==
    /\ ret.op = "saveMealWithAchievements"
    /\ "streak7" \in Range(ret.newBadges)
    /\ getAchievements.streak = 7

dateSetOf(ms) == {m.date : m \in Range(ms)}

\* the number of consecutive days ending on day d that are all in S
RunLength(S, d) ==
    CHOOSE n \in 0..Cardinality(S) :
        /\ \A k \in 0..(n - 1) : (d - k) \in S
        /\ (d - n) \notin S

\* C4: with a meal dated today, getCurrentStreak() is the number N of
\* consecutive days ending today that each have a meal (the day before them
\* has none); days before that gap are not counted.
C4_StreakEndingToday ==
    ISODate(clock) \in dateSetOf(getMeals)
        => getCurrentStreak = RunLength(dateSetOf(getMeals), ISODate(clock))

\* a run of two days ending today, with older days before the gap
C4_Witness ==
    /\ ISODate(clock) \in dateSetOf(getMeals)
    /\ getCurrentStreak = 2
    /\ Cardinality(dateSetOf(getMeals)) >= 4

\* C5: without a meal dated today, getCurrentStreak() is the number of
\* consecutive days ending yesterday that each have a meal.
C5_StreakEndingYesterday ==
    ISODate(clock) \notin dateSetOf(getMeals)
        => getCurrentStreak = RunLength(dateSetOf(getMeals), ISODate(clock) - 1)

(***************************************************************************)
(* Claims about the ledger queries and the weekly score (SpecLedger).      *)
(***************************************************************************)
\* the k-th index (from the head) of the ledger meals dated `date`
kthIndexOn(ms, date, k) ==
    LET idx == {i \in 1..Len(ms) : ms[i].date = date}
    IN  CHOOSE i \in idx : Cardinality({j \in idx : j <= i}) = k

\* `out` holds exactly the meals of ms dated `date`, each once, in ledger order
exactlyMealsOn(out, ms, date) ==
    /\ Len(out) = Cardinality({i \in 1..Len(ms) : ms[i].date = date})
    /\ \A k \in 1..Len(out) : out[k] = ms[kthIndexOn(ms, date, k)]

\* C7: getTodayMeals() holds exactly the ledger meals whose stored date is the
\* current date, each once, in ledger order; saveMeal stores the current date,
\* puts the new meal at the head of the ledger and of today's list and keeps
\* the earlier meals in their order; deleteMeal takes the meals with the id out.
C7_TodayMeals ==
    [][/\ exactlyMealsOn(getTodayMeals, getMeals, ISODate(clock))'
       /\ LedgerRecord =>
             /\ ret'.mealData.date = ISODate(clock)
             /\ getMeals' = <<ret'.mealData>> \o getMeals
             /\ getTodayMeals' = <<ret'.mealData>> \o getTodayMeals
       /\ \A id \in {m.id : m \in Range(getMeals)} :
             deleteMeal(id) =>
                getTodayMeals' = SelectSeq(getTodayMeals, LAMBDA m : m.id # id)]_vars

\* a meal has just been recorded on a day with an earlier meal, in a ledger
\* that also holds a meal of another day
C7_Witness ==
    /\ ret.op = "saveMeal"
    /\ Len(getTodayMeals) >= 2
    /\ getTodayMeals[1] = ret.mealData
    /\ Len(getMeals) > Len(getTodayMeals)

weeklyScore == calculateWeeklyNutritionScore(getMeals, settings, clock)

\* C8: calculateWeeklyNutritionScore() returns a whole score in 0..100, for
\* every ledger and settings record (the settings key is always present).
C8_ScoreInRange ==
    /\ getSettings # <<>>
    /\ weeklyScore.score \in 0..100

\* a scored window under a settings record without targetCalories
C8_Witness ==
    /\ "targetCalories" \notin DOMAIN settings
    /\ getWeeklyNutritionBalance(getMeals, clock) # <<>>
    /\ weeklyScore.score \in 1..99

\* the window of C9: macro shares 55/20/25, average calories on target,
\* average sodium <= 1800, average protein >= 60
idealWindow(w, target) ==
    LET macro == w.carbs * 4 + w.protein * 4 + w.fat * 9
    IN  /\ w.carbs * 4 * 100 = 55 * macro
        /\ w.protein * 4 * 100 = 20 * macro
        /\ w.fat * 9 * 100 = 25 * macro
        /\ macro > 0
        /\ w.calories = target * w.days
        /\ w.sodium <= 1800 * w.days
        /\ w.protein >= 60 * w.days

\* C9: for such a window calculateWeeklyNutritionScore() returns score 100
\* and an empty feedback list.
C9_IdealWindowScores100 ==
    LET wd == getWeeklyNutritionBalance(getMeals, clock)
    IN  (wd # <<>> /\ idealWindow(wd[1], targetCaloriesOf(settings)))
            => weeklyScore.score = 100 /\ weeklyScore.feedback = <<>>

\* an ideal window of two days
C9_Witness ==
    LET wd == getWeeklyNutritionBalance(getMeals, clock)
    IN  wd # <<>> /\ idealWindow(wd[1], targetCaloriesOf(settings)) /\ wd[1].days >= 2

(***************************************************************************)
(* Fasting timer.  A stored timestamp is <<t>>, null is <<>>; a field the   *)
(* stored object does not have reads as undefined, which the code treats   *)
(* like null / false.                                                      *)
(***************************************************************************)
\* the value of a timestamp field (null and undefined alike)
timeField(f, name) == IF name \in DOMAIN f THEN f[name] ELSE <<>>
flagField(f, name) == IF name \in DOMAIN f THEN f[name] ELSE FALSE

\* mode.split(':').map(Number), for the mode strings of the model
modeHours(mode) ==
    CASE mode = "16:8" -> <<16, 8>>
      [] mode = "18:6" -> <<18, 6>>
      [] mode = "20:4" -> <<20, 4>>

\* this.getFastingSettings().mode || '16:8'
modeOf(f) == IF "mode" \in DOMAIN f THEN f.mode ELSE "16:8"

\* d.setHours(d.getHours() + h)
plusHours(t, h) == t + h * MinPerHour

\* JavaScript's a % b for b > 0: the sign of the dividend
jsRem(a, b) == IF a >= 0 THEN a % b ELSE -((-a) % b)

\* Math.round(a / b * 100) for b > 0, halves rounded up
roundPercent(a, b) == (200 * a + b) \div (2 * b)

\* mutant of isCompletedOf: the end instant itself does not count
isCompletedOf_strict(remaining) == remaining < 0

\* getFastingStatus, lines 733 and 756: remaining <= 0
isCompletedOf(remaining) == remaining <= 0

\* getFastingStatus, lines 716-734 and 739-757: the timed part of the result
phaseStatus(status, mode, startTime, endTime, now) ==
    LET elapsed == now - startTime
        total == endTime - startTime
        remaining == endTime - now
    IN  [enabled |-> TRUE, status |-> status, mode |-> mode,
         startTime |-> startTime, endTime |-> endTime,
         elapsedHours |-> elapsed \div MinPerHour,
         elapsedMinutes |-> jsRem(elapsed, MinPerHour),
         remainingHours |-> Max(0, remaining \div MinPerHour),
         remainingMinutes |-> Max(0, jsRem(remaining, MinPerHour)),
         progress |-> Min(100, roundPercent(elapsed, total)),
         isCompleted |-> isCompletedOf(remaining)]

\* mode: settings.mode in the result of getFastingStatus
modeField(f) == IF "mode" \in DOMAIN f THEN f.mode ELSE "undefined"

\* mutant of getFastingStatusOf: a fasting phase past its end reads as idle
getFastingStatusOf_autoEnd(f, now) ==
    IF ~flagField(f, "enabled") THEN [enabled |-> FALSE, status |-> "disabled"]
    ELSE IF /\ flagField(f, "isActive") /\ timeField(f, "fastingStartTime") # <<>>
            /\ now <= f.fastingEndTime[1]
    THEN phaseStatus("fasting", modeField(f), f.fastingStartTime[1], f.fastingEndTime[1], now)
    ELSE [enabled |-> TRUE, status |-> "idle"]

\* getFastingStatus on the stored object f (isCompleted is named
\* shouldStartFasting in the eating phase)
getFastingStatusOf(f, now) ==
    IF ~flagField(f, "enabled") THEN [enabled |-> FALSE, status |-> "disabled"]
    ELSE IF flagField(f, "isActive") /\ timeField(f, "fastingStartTime") # <<>>
    THEN phaseStatus("fasting", modeField(f), f.fastingStartTime[1], f.fastingEndTime[1], now)
    ELSE IF timeField(f, "eatingStartTime") # <<>>
    THEN phaseStatus("eating", modeField(f), f.eatingStartTime[1], f.eatingEndTime[1], now)
    ELSE [enabled |-> TRUE, status |-> "idle"]

\* getFastingSettings on an absent key runs initFasting() and returns undefined
getFastingStatus ==
    IF "fasting" \in present THEN getFastingStatusOf(fasting, clock)
    ELSE [status |-> "TypeError"]

\* { ...current, ...updates }
merged(current, updates) ==
    [k \in DOMAIN current \cup DOMAIN updates |->
        IF k \in DOMAIN updates THEN updates[k] ELSE current[k]]

\* saveFastingSettings; on an absent key current is undefined and spreads to {}
saveFastingSettings(updates) ==
    IF parseFails({"fasting"}) THEN syntaxError
    ELSE /\ fasting' = IF "fasting" \in present THEN merged(fasting, updates) ELSE updates
         /\ present' = present \cup {"fasting"}
         /\ ret' = NoRet
         /\ UNCHANGED <<clock, meals, settings, badges, achievements, granted, corrupt>>

\* mutant of fastingStarted: the fast lasts for the second number of the mode
fastingStarted_eatHours(f, now) ==
    merged(f, [isActive |-> TRUE,
               fastingStartTime |-> <<now>>,
               fastingEndTime |-> <<plusHours(now, modeHours(modeOf(f))[2])>>,
               eatingStartTime |-> <<>>,
               eatingEndTime |-> <<>>])

\* the object startFasting saves, for the stored object f
fastingStarted(f, now) ==
    merged(f, [isActive |-> TRUE,
               fastingStartTime |-> <<now>>,
               fastingEndTime |-> <<plusHours(now, modeHours(modeOf(f))[1])>>,
               eatingStartTime |-> <<>>,
               eatingEndTime |-> <<>>])

\* the object startEating saves, for the stored object f
eatingStarted(f, now) ==
    merged(f, [isActive |-> FALSE,
               eatingStartTime |-> <<now>>,
               eatingEndTime |-> <<plusHours(now, modeHours(modeOf(f))[2])>>])

\* a call that reads .mode of undefined: initFasting() has written the key
fastingThrows ==
    /\ fasting' = initialFasting
    /\ present' = present \cup {"fasting"}
    /\ ret' = [op |-> "TypeError", threw |-> TRUE]
    /\ UNCHANGED <<clock, meals, settings, badges, achievements, granted, corrupt>>

startFasting ==
    IF parseFails({"fasting"}) THEN syntaxError
    ELSE IF "fasting" \notin present THEN fastingThrows
    ELSE /\ fasting' = fastingStarted(fasting, clock)
         /\ ret' = NoRet
         /\ UNCHANGED <<clock, present, meals, settings, badges, achievements, granted,
                        corrupt>>

startEating ==
    IF parseFails({"fasting"}) THEN syntaxError
    ELSE IF "fasting" \notin present THEN fastingThrows
    ELSE /\ fasting' = eatingStarted(fasting, clock)
         /\ ret' = NoRet
         /\ UNCHANGED <<clock, present, meals, settings, badges, achievements, granted,
                        corrupt>>

\* mutant of endFasting: the eating timestamps stay
endFasting_keepEating ==
    saveFastingSettings([isActive |-> FALSE,
                         fastingStartTime |-> <<>>, fastingEndTime |-> <<>>])

endFasting ==
    saveFastingSettings([isActive |-> FALSE,
                         fastingStartTime |-> <<>>, fastingEndTime |-> <<>>,
                         eatingStartTime |-> <<>>, eatingEndTime |-> <<>>])

(***************************************************************************)
(* SpecFasting: the handlers of FoodAIApp that drive the timer.            *)
(***************************************************************************)
\* FoodAIApp.toggleFastingMode(enabled)
ToggleFastingMode == \E enabled \in BOOLEAN : saveFastingSettings([enabled |-> enabled])

\* FoodAIApp.startFasting: saveFastingSettings({ mode }); storage.startFasting()
AppStartFasting ==
    \E mode \in {"16:8", "18:6"} :
        IF parseFails({"fasting"}) THEN syntaxError
        ELSE /\ fasting' = fastingStarted(IF "fasting" \in present
                                          THEN merged(fasting, [mode |-> mode])
                                          ELSE [mode |-> mode], clock)
             /\ present' = present \cup {"fasting"}
             /\ ret' = NoRet
             /\ UNCHANGED <<clock, meals, settings, badges, achievements, granted, corrupt>>

\* mutant of ToggleFastingState: every toggle starts a fast
ToggleFastingState_startOnly ==
    IF parseFails({"fasting"}) THEN syntaxError
    ELSE IF "fasting" \notin present THEN fastingThrows
    ELSE startFasting

\* FoodAIApp.toggleFastingState
ToggleFastingState ==
    IF parseFails({"fasting"}) THEN syntaxError
    ELSE IF "fasting" \notin present THEN fastingThrows
    ELSE IF getFastingStatus.status = "fasting" THEN startEating ELSE startFasting

\* StorageManager.startEating, called in any phase
StartEating == startEating

\* FoodAIApp.endFasting
EndFasting == endFasting

FastingTick ==
    \E delta \in {MinPerHour \div 2, 8 * MinPerHour} :
        /\ clock + delta <= FastingHours * MinPerHour
        /\ advanceClock(delta)

NextFasting ==
    \/ ToggleFastingMode
    \/ AppStartFasting
    \/ ToggleFastingState
    \/ StartEating
    \/ EndFasting
    \/ FastingTick

SpecFasting == Init /\ [][NextFasting]_vars

fastingStatus == getFastingStatus

\* a step in which startFasting() runs
startFastingCalled ==
    \/ AppStartFasting
    \/ ToggleFastingState /\ fastingStatus.status # "fasting"

\* C10: with fasting enabled, the status read at the instant of startFasting()
\* is 'fasting' with elapsed 0 h 0 min and progress 0; in phase fasting, read
\* at fastingEndTime it has progress 100 and isCompleted, and read at any
\* instant before fastingEndTime it has isCompleted = FALSE.
C10_FastingRoundTrip ==
    [][/\ (startFastingCalled /\ flagField(fasting', "enabled")) =>
             /\ fastingStatus'.status = "fasting"
             /\ fastingStatus'.startTime = clock
             /\ fastingStatus'.elapsedHours = 0
             /\ fastingStatus'.elapsedMinutes = 0
             /\ fastingStatus'.progress = 0
       /\ fastingStatus'.status = "fasting" =>
             /\ clock' = fasting'.fastingEndTime[1]
                   => fastingStatus'.progress = 100 /\ fastingStatus'.isCompleted
             /\ clock' < fasting'.fastingEndTime[1] => ~fastingStatus'.isCompleted]_vars

\* the status is read at fastingEndTime
C10_Witness ==
    /\ fastingStatus.status = "fasting"
    /\ clock = fasting.fastingEndTime[1]
    /\ fastingStatus.isCompleted

\* the part of a status that names the phase and its bounds
phaseOf(st) ==
    [k \in DOMAIN st \cap {"enabled", "status", "mode", "startTime", "endTime"} |-> st[k]]

\* C11: a clock advance alone never changes the phase: across a step in which
\* only the clock moves, getFastingStatus() reports the same status, mode,
\* start and end, also when the clock passes the end of the phase.
C11_NoAutoTransition ==
    [][FastingTick => phaseOf(fastingStatus') = phaseOf(fastingStatus)]_vars

\* the clock has passed the end of a fasting phase, which is still reported
C11_Witness ==
    /\ fastingStatus.status = "fasting"
    /\ clock > fasting.fastingEndTime[1]
    /\ fastingStatus.isCompleted

\* the phase the stored object is in, whether or not fasting is enabled
storedPhase == getFastingStatusOf(merged(fasting, [enabled |-> TRUE]), clock).status

\* the first and the second number of a mode string
firstNumber(mode) == IF mode = "16:8" THEN 16 ELSE IF mode = "18:6" THEN 18 ELSE 20
secondNumber(mode) == IF mode = "16:8" THEN 8 ELSE IF mode = "18:6" THEN 6 ELSE 4

\* C12: startFasting() with fasting enabled, in phase idle or eating, leads to
\* status 'fasting' with startTime = now and endTime = now + fastHours, where
\* fastHours is the first number of the stored mode.
C12_StartFasting ==
    [][(startFastingCalled /\ fastingStatus.status \in {"idle", "eating"}) =>
          /\ fastingStatus'.status = "fasting"
          /\ fastingStatus'.startTime = clock
          /\ fastingStatus'.endTime = clock + firstNumber(fasting'.mode) * MinPerHour
          /\ fasting'.mode = "16:8" => fastingStatus'.endTime = clock + 16 * MinPerHour]_vars

\* a fast of mode 18:6 has just been started later than the initial instant
C12_Witness ==
    /\ fastingStatus.status = "fasting"
    /\ fasting.mode = "18:6"
    /\ fastingStatus.startTime = clock
    /\ clock > 0

\* a step in which startEating() runs
startEatingCalled ==
    \/ StartEating
    \/ ToggleFastingState /\ fastingStatus.status = "fasting"

\* the status after startEating(): eating from now for the second number of the mode
eatingFromNow ==
    /\ fastingStatus'.status = "eating"
    /\ fastingStatus'.startTime = clock
    /\ fastingStatus'.endTime = clock + secondNumber(fasting'.mode) * MinPerHour

\* C13: startEating() in phase fasting leads to status 'eating' from now for
\* eatHours of the stored mode, and in phase idle leaves the phase idle.
C13_StartEatingFromFastingOnly ==
    [][startEatingCalled =>
          /\ fastingStatus.status = "fasting" => eatingFromNow
          /\ fastingStatus.status = "idle" => fastingStatus'.status = "idle"]_vars

\* C14: endFasting() in phase fasting or eating sets the four stored
\* timestamps to null and isActive to false, leaves enabled and mode
\* unchanged, and the status afterwards is 'idle' when enabled.
C14_EndFasting ==
    [][(EndFasting /\ storedPhase \in {"fasting", "eating"}) =>
          /\ fasting'.fastingStartTime = <<>> /\ fasting'.fastingEndTime = <<>>
          /\ fasting'.eatingStartTime = <<>> /\ fasting'.eatingEndTime = <<>>
          /\ fasting'.isActive = FALSE
          /\ fasting'.enabled = fasting.enabled /\ fasting'.mode = fasting.mode
          /\ fasting'.enabled => fastingStatus'.status = "idle"]_vars

\* endFasting() has run while enabled, after a fast of mode 18:6
C14_Witness ==
    /\ fastingStatus.status = "idle"
    /\ fasting.mode = "18:6"
    /\ clock > 0

\* the four stored timestamps
timestampsOf(f) ==
    [k \in {"fastingStartTime", "fastingEndTime", "eatingStartTime", "eatingEndTime"} |->
        timeField(f, k)]

\* C15: disabling in phase fasting or eating gives status 'disabled' and
\* changes no timestamp; enabling afterwards gives status 'idle'; a stored
\* timestamp becomes null only through endFasting().
C15_EnableToggle ==
    [][/\ (ToggleFastingMode /\ storedPhase \in {"fasting", "eating"}) =>
             /\ timestampsOf(fasting') = timestampsOf(fasting)
             /\ ~fasting'.enabled => fastingStatus'.status = "disabled"
             /\ (~fasting.enabled /\ fasting'.enabled) => fastingStatus'.status = "idle"
       /\ (\E k \in DOMAIN timestampsOf(fasting) :
               timestampsOf(fasting)[k] # <<>> /\ timestampsOf(fasting')[k] = <<>>)
             => EndFasting]_vars

(***************************************************************************)
(* SpecStore: the store with keys that are absent or hold a string that    *)
(* JSON.parse rejects.                                                     *)
(***************************************************************************)
\* data ? JSON.parse(data) : default, for one key: the value or the error
parsed(key, value) ==
    IF parseFails({key}) THEN [threw |-> TRUE] ELSE [threw |-> FALSE, value |-> value]

\* getFastingSettings(): undefined is <<>>; initFasting() returns nothing
getFastingSettings ==
    parsed("fasting", IF "fasting" \in present THEN <<fasting>> ELSE <<>>)

\* a caller reads getFastingSettings(); on an absent key initFasting() writes it
ReadFastingSettings ==
    IF parseFails({"fasting"}) THEN syntaxError
    ELSE /\ fasting' = IF "fasting" \in present THEN fasting ELSE initialFasting
         /\ present' = present \cup {"fasting"}
         /\ ret' = [op |-> "getFastingSettings", value |-> getFastingSettings.value]
         /\ UNCHANGED <<clock, meals, settings, badges, achievements, granted, corrupt>>

\* a caller reads getFastingStatus(); settings.enabled of undefined throws
ReadFastingStatus ==
    IF parseFails({"fasting"}) THEN syntaxError
    ELSE IF "fasting" \notin present THEN fastingThrows
    ELSE /\ ret' = [op |-> "getFastingStatus", value |-> getFastingStatus]
         /\ UNCHANGED <<clock, present, meals, settings, badges, achievements, fasting,
                        granted, corrupt>>

\* something outside the StorageManager leaves an unparseable string under a key
CorruptKey ==
    \E key \in {"meals", "settings", "badges", "achievements", "fasting"} :
        /\ key \notin corrupt
        /\ corrupt' = corrupt \cup {key}
        /\ present' = present \cup {key}
        /\ ret' = NoRet
        /\ UNCHANGED <<clock, meals, settings, badges, achievements, fasting, granted>>

NextStore ==
    \/ RecordMeal
    \/ SaveSettings
    \/ ClearAllData
    \/ ToggleFastingMode
    \/ ToggleFastingState
    \/ ReadFastingSettings
    \/ ReadFastingStatus
    \/ CorruptKey

SpecStore == Init /\ [][NextStore]_vars

\* C16: when a key is absent, getMeals, getBadges, getAchievements,
\* getFastingSettings and getFastingStatus return the built-in default of the
\* key and raise no error.
C16_AbsentKeysSafe ==
    /\ "meals" \notin present => getMeals = <<>>
    /\ "badges" \notin present => getBadges = <<>>
    /\ "achievements" \notin present => getAchievements = initialAchievements
    /\ "fasting" \notin present =>
          /\ getFastingSettings = [threw |-> FALSE, value |-> <<initialFasting>>]
          /\ getFastingStatus = [enabled |-> FALSE, status |-> "disabled"]

\* C17: a key whose stored string is not parseable JSON is read as absent:
\* getMeals, getSettings, getBadges, getAchievements and getFastingSettings
\* return their default and raise no error.
C17_CorruptKeysReadAsAbsent ==
    /\ "meals" \in corrupt => parsed("meals", getMeals) = [threw |-> FALSE, value |-> <<>>]
    /\ "settings" \in corrupt =>
          parsed("settings", getSettings) = [threw |-> FALSE, value |-> <<>>]
    /\ "badges" \in corrupt => parsed("badges", getBadges) = [threw |-> FALSE, value |-> <<>>]
    /\ "achievements" \in corrupt =>
          parsed("achievements", getAchievements)
              = [threw |-> FALSE, value |-> initialAchievements]
    /\ "fasting" \in corrupt =>
          getFastingSettings = [threw |-> FALSE, value |-> <<initialFasting>>]

(***************************************************************************)
(* SpecImport: imports of every kind of document into a store that holds   *)
(* meals, badges and counters.                                             *)
(***************************************************************************)
ImportDocs == {MalformedDoc, NullDoc, MealsDoc, SettingsDoc, EmptyDoc, NullFieldsDoc, FullDoc}

ImportAny == \E doc \in ImportDocs : importData(doc)

NextImport ==
    \/ RecordMeal
    \/ ImportAny
    \/ ToggleFastingMode
    \/ NextDay

SpecImport == Init /\ [][NextImport]_vars

\* the store: which keys exist and what they hold
store == <<present, corrupt, meals, settings, badges, achievements, fasting>>

ValidDocs == {doc \in ImportDocs : doc.json = "object"}

hasField(doc, name) == name \in DOMAIN doc.fields \cup nullsOf(doc)
hasTruthyField(doc, name) == name \in DOMAIN doc.fields

\* the meals key and the settings key after a step, as a reader finds them
mealsKey == IF "meals" \in present THEN <<meals>> ELSE <<>>
settingsKey == IF "settings" \in present THEN <<settings>> ELSE <<>>

\* an import leaves badges, achievements and fasting as they are
importFrame ==
    /\ UNCHANGED <<badges, achievements, fasting>>
    /\ present' \ {"meals", "settings"} = present \ {"meals", "settings"}

\* C19 as stated: a valid document replaces the meals key when it has a meals
\* field (a null field leaves no meals to read) and the settings key when it
\* has a settings field, leaves a key whose field is missing unchanged, and
\* never changes badges, achievements or fasting.
C19_ImportReplacesPresentFields ==
    [][\A doc \in ValidDocs : importData(doc) =>
          /\ IF hasField(doc, "meals")
             THEN getMeals' = (IF hasTruthyField(doc, "meals") THEN doc.fields.meals ELSE <<>>)
             ELSE mealsKey' = mealsKey
          /\ IF hasField(doc, "settings")
             THEN getSettings' = (IF hasTruthyField(doc, "settings")
                                  THEN <<doc.fields.settings>> ELSE <<>>)
             ELSE settingsKey' = settingsKey
          /\ importFrame]_vars

\* C19: a valid document replaces the meals key when its meals field is
\* truthy and the settings key when its settings field is truthy, leaves a key
\* whose field is missing or null unchanged, and never changes badges,
\* achievements or fasting.
C19_ImportReplacesTruthyFields ==
    [][\A doc \in ValidDocs : importData(doc) =>
          /\ IF hasTruthyField(doc, "meals")
             THEN mealsKey' = <<doc.fields.meals>>
             ELSE mealsKey' = mealsKey
          /\ IF hasTruthyField(doc, "settings")
             THEN settingsKey' = <<doc.fields.settings>>
             ELSE settingsKey' = settingsKey
          /\ importFrame]_vars

\* a settings-only document has been imported into a store with meals and badges
C19_Witness ==
    /\ ret = [op |-> "importData", value |-> TRUE]
    /\ settings = SettingsDoc.fields.settings
    /\ Len(getMeals) > 0
    /\ Len(getBadges) > 0

(***************************************************************************)
(* SpecRecord: the record path of the application, from the parsed         *)
(* estimate through the editable form fields to the ledger.  A raw value   *)
(* (a JSON value of the response, the text of an input field) is either    *)
(* the text of a whole number or a text that parseInt / parseFloat turn    *)
(* into NaN.                                                               *)
(***************************************************************************)
num(n) == [kind |-> "number", n |-> n]
NotANumber == [kind |-> "text"]

\* parseInt(raw) || 0 and parseFloat(raw) || 0: NaN and 0 give 0
parseOr0(raw) == IF raw.kind = "number" THEN raw.n ELSE 0

\* NutritionAnalyzer.validateNutrition: Math.max(0, parse(raw) || 0)
validateNutrition(nutrition) ==
    [name |-> nutrition.name,
     calories |-> Max(0, parseOr0(nutrition.calories)),
     carbs |-> Max(0, parseOr0(nutrition.carbs)),
     protein |-> Max(0, parseOr0(nutrition.protein)),
     fat |-> Max(0, parseOr0(nutrition.fat)),
     sodium |-> Max(0, parseOr0(nutrition.sodium))]

\* GeminiAPI.parseGeminiResponse, the JSON branch
parseGeminiResponse(response) ==
    [name |-> response.name,
     calories |-> parseOr0(response.calories),
     carbs |-> parseOr0(response.carbs),
     protein |-> parseOr0(response.protein),
     fat |-> parseOr0(response.fat),
     sodium |-> parseOr0(response.sodium)]

\* displayAnalysisResult: each input's value is the text of the number
displayAnalysisResult(analysis) ==
    [name |-> analysis.name,
     calories |-> num(analysis.calories), carbs |-> num(analysis.carbs),
     protein |-> num(analysis.protein), fat |-> num(analysis.fat),
     sodium |-> num(analysis.sodium)]

\* NutritionAnalyzer.getMealType, for a host whose wall clock shows UTC
\* (achim, achim-gansik, jeomsim, ohu-gansik, jeonyeok, yasik)
getMealType(now) ==
    LET hour == (now \div MinPerHour) % 24
    IN  IF hour >= 6 /\ hour < 10 THEN "achim"
        ELSE IF hour >= 10 /\ hour < 12 THEN "achim-gansik"
        ELSE IF hour >= 12 /\ hour < 15 THEN "jeomsim"
        ELSE IF hour >= 15 /\ hour < 18 THEN "ohu-gansik"
        ELSE IF hour >= 18 /\ hour < 21 THEN "jeonyeok"
        ELSE "yasik"

\* saveAnalysis, lines 1022-1031: the meal read from the form
mealOfForm(form, now) ==
    [name |-> form.name,
     calories |-> parseOr0(form.calories),
     carbs |-> parseOr0(form.carbs),
     protein |-> parseOr0(form.protein),
     fat |-> parseOr0(form.fat),
     sodium |-> parseOr0(form.sodium),
     mealType |-> getMealType(now)]

\* what the model answers: a plausible estimate, one with negative numbers,
\* one whose calories are not a number
Responses ==
    {[name |-> "ramyeon", calories |-> num(500), carbs |-> num(70), protein |-> num(10),
      fat |-> num(20), sodium |-> num(2500)],
     [name |-> "ramyeon", calories |-> num(-100), carbs |-> num(70), protein |-> num(10),
      fat |-> num(20), sodium |-> num(-1)],
     [name |-> "ramyeon", calories |-> NotANumber, carbs |-> num(70), protein |-> num(10),
      fat |-> num(20), sodium |-> num(2500)]}

\* what the user types into the calories field before saving (<<>>: nothing)
CalorieEdits == {<<>>, <<num(-5)>>, <<NotANumber>>}

\* analyzeImage, an edit of the form, then saveAnalysis
SaveAnalysis ==
    \E response \in Responses, edit \in CalorieEdits :
        LET shown == displayAnalysisResult(parseGeminiResponse(response))
            form == IF edit = <<>> THEN shown ELSE [shown EXCEPT !.calories = edit[1]]
        IN  /\ Len(getMeals) < MaxMeals
            /\ saveMealWithAchievements(mealOfForm(form, clock))
            /\ UNCHANGED granted

NextRecord ==
    \/ SaveAnalysis
    \/ NextDay

SpecRecord == Init /\ [][NextRecord]_vars

\* C20: every meal that reaches the ledger through the record path has
\* calories, carbs, protein, fat and sodium >= 0.
C20_LedgerNonNegative ==
    \A i \in 1..Len(getMeals) :
        /\ getMeals[i].calories >= 0
        /\ getMeals[i].carbs >= 0
        /\ getMeals[i].protein >= 0
        /\ getMeals[i].fat >= 0
        /\ getMeals[i].sodium >= 0

\* no two meals of the ledger share an id
distinctIds(ms) == \A i, j \in 1..Len(ms) : i # j => ms[i].id # ms[j].id

\* C21: meal ids are unique: a saveMeal call on a ledger with pairwise
\* distinct ids leaves a ledger with pairwise distinct ids, also when the
\* call reads the same clock value as an earlier one.
C21_UniqueIds ==
    [][(LedgerRecord /\ distinctIds(getMeals)) => distinctIds(getMeals')]_vars

\* ms without its k-th element
without(ms, k) == SubSeq(ms, 1, k - 1) \o SubSeq(ms, k + 1, Len(ms))

\* C22: deleteMeal(id) removes exactly one meal when a meal with that id is in
\* the ledger (the others stay, in order) and leaves the ledger unchanged
\* when no meal has that id.
C22_DeleteRemovesOne ==
    [][\A id \in {m.id : m \in Range(getMeals)} \cup {-1} : deleteMeal(id) =>
          IF \E m \in Range(getMeals) : m.id = id
          THEN \E k \in 1..Len(getMeals) :
                  getMeals[k].id = id /\ getMeals' = without(getMeals, k)
          ELSE getMeals' = getMeals]_vars

\* a is b with some elements left out
RECURSIVE IsSubseq(_, _)
IsSubseq(a, b) ==
    IF a = <<>> THEN TRUE
    ELSE IF b = <<>> THEN FALSE
    ELSE IF a[1] = b[1] THEN IsSubseq(Tail(a), Tail(b))
    ELSE IsSubseq(a, Tail(b))

\* C25: a recorded meal is immutable: across saveMeal, deleteMeal, a settings
\* change and a change of the clock, the ledger after the step consists of
\* records of the ledger before it, unaltered and in the same order, behind
\* at most one new record at the front.
C25_MealsImmutable ==
    [][(LedgerRecord \/ DeleteMeal \/ SaveSettings \/ NextDay) =>
          \/ IsSubseq(getMeals', getMeals)
          \/ getMeals' # <<>> /\ Tail(getMeals') = getMeals]_vars

\* a meal of an earlier day keeps its date behind a meal recorded today
C25_Witness ==
    /\ Len(getMeals) >= 2
    /\ getMeals[1].timestamp = clock
    /\ \E i \in 2..Len(getMeals) :
          /\ getMeals[i].date < ISODate(clock)
          /\ getMeals[i].date = ISODate(getMeals[i].timestamp)

(***************************************************************************)
(* SpecDay: the ledger under a clock that moves within the day, with meals *)
(* that lack a name or a calories field.                                   *)
(***************************************************************************)
\* kimchi stew and salad, and a meal object with neither name nor calories
KimchiStew == [name |-> "kimchi-jjigae", calories |-> 600, carbs |-> 60, protein |-> 30,
               fat |-> 20, sodium |-> 400]
SideSalad  == [name |-> "saelleodeu", calories |-> 500, carbs |-> 50, protein |-> 25,
               fat |-> 15, sodium |-> 300]
BareMeal   == [carbs |-> 5]

DayRecord ==
    /\ Len(getMeals) < MaxMeals
    /\ \E meal \in {KimchiStew, SideSalad, BareMeal} : saveMeal(meal)

\* eight hours pass
DayTick ==
    /\ ISODate(clock + 8 * MinPerHour) <= MaxDay
    /\ advanceClock(8 * MinPerHour)

NextOfDay ==
    \/ DayRecord
    \/ DeleteMeal
    \/ DayTick

SpecDay == Init /\ [][NextOfDay]_vars

getTodayCalories == getTodayCaloriesAt(getMeals, clock)

\* the calories of the meals of ms at the indices in S, none counting 0
RECURSIVE caloriesAt(_, _)
caloriesAt(ms, S) ==
    IF S = {} THEN 0
    ELSE LET i == CHOOSE i \in S : TRUE
         IN  (IF "calories" \in DOMAIN ms[i] THEN ms[i].calories ELSE 0)
                 + caloriesAt(ms, S \ {i})

\* the calories a meal object carries, if any
kcalIs(m, n) == "calories" \in DOMAIN m /\ m.calories = n

\* C23: getTodayCalories() is the sum of the calories of exactly the ledger
\* meals dated today, a meal without calories counting 0; meals of 600 and
\* 500 kcal recorded today give 1100.
C23_TodayCalories ==
    /\ getTodayCalories
          = caloriesAt(getMeals, {i \in 1..Len(getMeals) : getMeals[i].date = ISODate(clock)})
    /\ (\E a, b \in Range(getTodayMeals) :
            /\ getTodayMeals \in {<<a, b>>, <<b, a>>}
            /\ kcalIs(a, 600) /\ kcalIs(b, 500))
          => getTodayCalories = 1100

\* today holds the 600 and the 500 kcal meal, the ledger also a meal of
\* another day
C23_Witness ==
    /\ Len(getTodayMeals) = 2
    /\ \E m \in Range(getTodayMeals) : kcalIs(m, 600)
    /\ \E m \in Range(getTodayMeals) : kcalIs(m, 500)
    /\ Len(getMeals) = 3
    /\ getTodayCalories = 1100

(***************************************************************************)
(* getTopFoods, and SpecTop: a ledger long enough for a name to occur      *)
(* three times.                                                            *)
(***************************************************************************)
TopMeals == 5           \* SpecTop: the ledger holds at most TopMeals meals

\* meal.name || 'al su eomneun eumsik' (unknown food)
nameOf(m) ==
    IF "name" \in DOMAIN m /\ m.name # "" THEN m.name ELSE "al su eomneun eumsik"

\* the keys of foodCounts in insertion order: each name at its first meal
RECURSIVE foodNames(_)
foodNames(ms) ==
    IF ms = <<>> THEN <<>>
    ELSE LET before == foodNames(SubSeq(ms, 1, Len(ms) - 1))
             name == nameOf(ms[Len(ms)])
         IN  IF name \in Range(before) THEN before ELSE Append(before, name)

\* foodCounts[name] as an entry { name, count, calories }
foodEntry(ms, name) ==
    LET mine == SelectSeq(ms, LAMBDA m : nameOf(m) = name)
    IN  [name |-> name, count |-> Len(mine), calories |-> SumBy(mine, "calories")]

\* mutant of insertByCount: the smaller count goes first
RECURSIVE insertByCount_ascending(_, _)
insertByCount_ascending(sorted, e) ==
    IF sorted = <<>> THEN <<e>>
    ELSE IF e.count < sorted[1].count THEN <<e>> \o sorted
    ELSE <<sorted[1]>> \o insertByCount_ascending(Tail(sorted), e)

\* sort((a, b) => b.count - a.count), stable: e goes behind the entries whose
\* count is not smaller
RECURSIVE insertByCount(_, _)
insertByCount(sorted, e) ==
    IF sorted = <<>> THEN <<e>>
    ELSE IF e.count > sorted[1].count THEN <<e>> \o sorted
    ELSE <<sorted[1]>> \o insertByCount(Tail(sorted), e)

RECURSIVE sortByCount(_)
sortByCount(es) ==
    IF es = <<>> THEN <<>>
    ELSE insertByCount(sortByCount(SubSeq(es, 1, Len(es) - 1)), es[Len(es)])

\* getTopFoods(limit), for limit >= 0
getTopFoods(ms, limit) ==
    LET names == foodNames(ms)
        entries == [i \in 1..Len(names) |-> foodEntry(ms, names[i])]
    IN  SubSeq(sortByCount(entries), 1, Min(limit, Len(names)))

TopRecord ==
    /\ Len(getMeals) < TopMeals
    /\ \E meal \in {KimchiStew, SideSalad, BareMeal} : saveMeal(meal)

NextTop ==
    \/ TopRecord
    \/ DeleteMeal

SpecTop == Init /\ [][NextTop]_vars

\* how many meals of the ledger have the name
mealsNamed(name) == Cardinality({i \in 1..Len(getMeals) : nameOf(getMeals[i]) = name})

\* three kimchi stews and two salads
stewsAndSalads == mealsNamed("kimchi-jjigae") = 3 /\ mealsNamed("saelleodeu") = 2

\* C24: getTopFoods(limit) returns at most limit entries, one per distinct
\* name, each with the count and the calorie sum of the meals of that name, in
\* non-increasing order of count, and no omitted name has a larger count than
\* a returned one; three kimchi stews and two salads give the stew for limit 1.
C24_TopFoods ==
    \A limit \in 0..(TopMeals + 1) :
        LET out == getTopFoods(getMeals, limit)
            returned == {out[i].name : i \in 1..Len(out)}
            all == {nameOf(getMeals[i]) : i \in 1..Len(getMeals)}
        IN  /\ Len(out) <= limit
            /\ Cardinality(returned) = Len(out)
            /\ returned \subseteq all
            /\ \A i \in 1..Len(out) :
                  /\ out[i].count = mealsNamed(out[i].name)
                  /\ out[i].calories
                        = caloriesAt(getMeals, {k \in 1..Len(getMeals) :
                                                   nameOf(getMeals[k]) = out[i].name})
            /\ \A i, j \in 1..Len(out) : i < j => out[i].count >= out[j].count
            /\ \A name \in all \ returned :
                  \A i \in 1..Len(out) : mealsNamed(name) <= out[i].count
            /\ (stewsAndSalads /\ limit = 1)
                  => out = <<[name |-> "kimchi-jjigae", count |-> 3, calories |-> 1800]>>

\* the ledger holds three kimchi stews and two salads, a salad recorded last
C24_Witness ==
    /\ stewsAndSalads
    /\ nameOf(getMeals[1]) = "saelleodeu"
    /\ Len(getTopFoods(getMeals, 1)) = 1

\* offsets of the local timezone from UTC, in hours
TzOffsets == {-8, 0, 9}

\* the local calendar day of the instant t in a zone offset hours ahead of UTC
localDay(t, offset) == (t + offset * MinPerHour) \div MinPerDay

\* C26: for every offset of the local timezone, the date saveMeal stores is
\* the local calendar date of the instant, and a meal recorded on local day D
\* is returned by getTodayMeals() at every later instant of local day D.
C26_LocalCalendarDate ==
    \A offset \in TzOffsets :
        \A i \in 1..Len(getMeals) :
            /\ getMeals[i].date = localDay(getMeals[i].timestamp, offset)
            /\ localDay(getMeals[i].timestamp, offset) = localDay(clock, offset)
                  => getMeals[i] \in Range(getTodayMeals)

(***************************************************************************)
(* SpecSettings: the settings record under saves, imports, clears and page *)
(* loads.                                                                  *)
(***************************************************************************)
\* mutant of constructor: a page load counts the streak anew from the ledger
constructor_recount ==
    IF parseFails({"settings"}) THEN syntaxError
    ELSE /\ settings' = IF "settings" \in present THEN settings ELSE defaultSettings
         /\ badges' = IF "badges" \in present THEN badges ELSE <<>>
         /\ achievements' = [getAchievements EXCEPT
                                 !.streak = getCurrentStreakAt(getMeals, clock)]
         /\ fasting' = IF "fasting" \in present THEN fasting ELSE initialFasting
         /\ present' = present \cup {"settings", "badges", "achievements", "fasting"}
         /\ ret' = [op |-> "constructor"]
         /\ UNCHANGED <<clock, meals, granted, corrupt>>

\* new StorageManager() on the store as it is: initDefaults(), initBadges(),
\* initFasting() each write their key only when it is absent
constructor ==
    IF parseFails({"settings"}) THEN syntaxError
    ELSE /\ settings' = IF "settings" \in present THEN settings ELSE defaultSettings
         /\ badges' = IF "badges" \in present THEN badges ELSE <<>>
         /\ achievements' = IF "achievements" \in present THEN achievements
                                                          ELSE initialAchievements
         /\ fasting' = IF "fasting" \in present THEN fasting ELSE initialFasting
         /\ present' = present \cup {"settings", "badges", "achievements", "fasting"}
         /\ ret' = [op |-> "constructor"]
         /\ UNCHANGED <<clock, meals, granted, corrupt>>

\* the page is loaded again
Reload == constructor

NextSettings ==
    \/ SaveSettings
    \/ ImportAny
    \/ ClearAllData
    \/ Reload
    \/ RecordMeal

SpecSettings == Init /\ [][NextSettings]_vars

\* C27: getSettings() is non-null in every reachable state, also after
\* clearAllData() and importData(); the defaults are written only when no
\* settings record exists: clearAllData() leaves the default record and a
\* page load leaves an existing record as it is.
C27_SettingsNeverNull ==
    /\ [](getSettings # <<>>)
    /\ [][/\ ClearAllData => getSettings' = <<defaultSettings>>
          /\ Reload => getSettings' = getSettings]_vars

\* the page has been loaded on a store whose settings are not the defaults
C27_Witness ==
    /\ ret = [op |-> "constructor"]
    /\ getSettings = <<[targetCalories |-> 1000]>>
    /\ Len(getMeals) > 0

(***************************************************************************)
(* SpecCounters: the four lifetime counters under recorded meals, changes  *)
(* of the target and passing days.                                         *)
(***************************************************************************)
\* a meal whose name holds a vegetable keyword and whose protein is exactly 20
ChickenSalad == [name |-> "dak-gaseumsal saelleodeu", calories |-> 300, carbs |-> 10,
                 protein |-> 20, fat |-> 10, sodium |-> 300]

\* settings objects with a target of 1000, of 0, a negative one and none
TargetChoices == {[targetCalories |-> 1000], [targetCalories |-> 0],
                  [targetCalories |-> -500], [goal |-> "lose"]}

CountRecord ==
    /\ Len(getMeals) < MaxMeals
    /\ \E meal \in {Bibimbap, Ramyeon, Salad, ChickenSalad} : saveMealWithAchievements(meal)
    /\ UNCHANGED granted

CountSettings == \E s \in TargetChoices : saveSettings(s)

NextCounters ==
    \/ CountRecord
    \/ CountSettings
    \/ NextDay

SpecCounters == Init /\ [][NextCounters]_vars

\* the meal a record step has put at the head of the ledger
recorded == Head(getMeals')

\* the calories of the ledger meals dated today, after the record step
todayTotal ==
    caloriesAt(getMeals', {i \in 1..Len(getMeals') : getMeals'[i].date = ISODate(clock)})

\* settings.targetCalories, 2000 when missing or 0
target ==
    IF "targetCalories" \in DOMAIN settings /\ settings.targetCalories # 0
    THEN settings.targetCalories ELSE 2000

\* |todayTotal - target| / target <= 1/10, both sides multiplied by 10 * target^2
withinTenPercent == 10 * Abs(todayTotal - target) * target <= target * target

\* C28: a saveMealWithAchievements call adds exactly 1 to goalAchieved if
\* |todayTotal - target| / target <= 0.10, todayTotal including the meal just
\* recorded and target being settings.targetCalories or 2000 when that is
\* missing or 0, and leaves goalAchieved unchanged otherwise; the divisor is
\* never 0.
C28_GoalAchieved ==
    [][CountRecord =>
        /\ target # 0
        /\ achievements'.goalAchieved =
               achievements.goalAchieved + (IF withinTenPercent THEN 1 ELSE 0)]_vars

\* two meals of 500 kcal against a target of 1000: the second one counts,
\* the first one did not
C28_Witness ==
    /\ ret.op = "saveMealWithAchievements"
    /\ settings = [targetCalories |-> 1000]
    /\ Len(getMeals) = 2
    /\ \A i \in 1..2 : getMeals[i].calories = 500 /\ getMeals[i].date = ISODate(clock)
    /\ getAchievements.goalAchieved = 1

\* C29: a saveMealWithAchievements call adds exactly 1 to perfectWeeks if the
\* weekly score computed on the ledger that holds the new meal is >= 90, and
\* leaves perfectWeeks unchanged otherwise.
C29_PerfectWeeks ==
    [][CountRecord =>
        achievements'.perfectWeeks =
            achievements.perfectWeeks
              + (IF calculateWeeklyNutritionScore(getMeals', settings, clock).score >= 90
                 THEN 1 ELSE 0)]_vars

\* two calls, one of which counted
C29_Witness ==
    /\ ret.op = "saveMealWithAchievements"
    /\ Len(getMeals) = 2
    /\ getAchievements.perfectWeeks = 1

macroBalanceOf(details) ==
    IF "macroBalance" \in DOMAIN details THEN details.macroBalance ELSE 0

\* C31: whenever the window holds a meal, the score is the clamped sum of the
\* four components, the macro component counting 0 when the window's macro
\* calories are 0.
C31_ScoreIsSumOfComponents ==
    Len(getRecentMeals(getMeals, clock, 7)) > 0 =>
        LET d == weeklyScore.details
        IN  weeklyScore.score =
                clampScore(macroBalanceOf(d) + d.calorieConsistency
                           + d.sodiumControl + d.proteinAdequacy)

(***************************************************************************)
(* The window of the weekly score.                                         *)
(***************************************************************************)
\* C32: the weekly aggregation covers at most 7 distinct days, and every
\* aggregated meal is dated within the 7 calendar days ending today.
C32_SevenDayWindow ==
    LET weeklyData == getWeeklyNutritionBalance(getMeals, clock)
        today == ISODate(clock)
    IN  /\ weeklyData # <<>> => weeklyData[1].days <= 7
        /\ \A m \in Range(getRecentMeals(getMeals, clock, 7)) :
               today - 6 <= m.date /\ m.date <= today

(***************************************************************************)
(* The timed fields of getFastingStatus() over the readings of the clock.  *)
(***************************************************************************)
\* the values new Date() can give to a call, half an hour apart: the host
\* clock can be set back as well as forward between two calls
ClockReadings == {k * (MinPerHour \div 2) : k \in 0..(2 * FastingHours)}

\* C33: in phase fasting or eating, for every clock value and every stored
\* mode, progress is within 0..100 and remainingHours and remainingMinutes
\* are >= 0; both are 0 for every clock value at or after the end of the phase.
C33_StatusWithinRange ==
    \A now \in ClockReadings :
        LET st == getFastingStatusOf(fasting, now)
        IN  st.status \in {"fasting", "eating"} =>
                /\ 0 <= st.progress /\ st.progress <= 100
                /\ st.remainingHours >= 0
                /\ st.remainingMinutes >= 0
                /\ now >= st.endTime => st.remainingHours = 0 /\ st.remainingMinutes = 0

(***************************************************************************)
(* SpecToggle: the timer driven by the toggle button alone.                *)
(***************************************************************************)
NextToggle ==
    \/ ToggleFastingMode
    \/ ToggleFastingState
    \/ FastingTick

SpecToggle == Init /\ [][NextToggle]_vars

\* C34: with fasting enabled, a toggle in phase fasting leads to phase eating
\* and a toggle in any other phase leads to phase fasting: from idle the
\* toggles give fasting, eating, fasting, ... and never idle.
C34_ToggleAlternates ==
    [][(ToggleFastingState /\ flagField(fasting, "enabled")) =>
          /\ fastingStatus.status = "fasting" =>
                 /\ fastingStatus'.status = "eating"
                 /\ fasting' = eatingStarted(fasting, clock)
          /\ fastingStatus.status # "fasting" =>
                 /\ fastingStatus'.status = "fasting"
                 /\ fasting' = fastingStarted(fasting, clock)]_vars

\* the second toggle has led to eating, and the fast before it was started
\* by a toggle
C34_Witness ==
    /\ fastingStatus.status = "eating"
    /\ fastingStatus.startTime = clock
    /\ clock > 0

(***************************************************************************)
(* getStatsByPeriod: the ledger grouped by day, week or month.  A date     *)
(* string is its day number since 1970-01-01; the days of the model lie in *)
(* 1970.                                                                   *)
(***************************************************************************)
StatsDays == 35         \* SpecStats: the clock stays within days 0 .. StatsDays

\* the lengths of the months of 1970
MonthDays == <<31, 28, 31, 30, 31, 30, 31, 31, 30, 31, 30, 31>>

RECURSIVE daysBefore(_)
daysBefore(month) == IF month = 1 THEN 0 ELSE daysBefore(month - 1) + MonthDays[month - 1]

\* meal.date.substring(0, 7): the year and the month of the date string
yearMonth(date) ==
    <<1970, CHOOSE month \in 1..12 :
                daysBefore(month) <= date /\ date < daysBefore(month) + MonthDays[month]>>

\* Date.getDay() of a local calendar day: 1970-01-01 was a Thursday
getDay(day) == (day + 4) % 7

\* lines 119-131: new Date(meal.date) is the UTC midnight of the date, getDay
\* and setDate work on the local calendar, toISOString gives the UTC date
periodKey(meal, period, offset) ==
    CASE period = "daily" -> meal.date
      [] period = "weekly" ->
            LET day == getDay(localDay(meal.date * MinPerDay, offset))
            IN  ISODate(meal.date * MinPerDay - day * MinPerDay)
      [] period = "monthly" -> yearMonth(meal.date)

\* mutant of statsLoop: a meal starts its bucket anew
RECURSIVE statsLoop_fresh(_, _, _, _)
statsLoop_fresh(ms, period, offset, stats) ==
    IF ms = <<>> THEN stats
    ELSE LET meal == Head(ms)
             key == periodKey(meal, period, offset)
             cur == [calories |-> 0, count |-> 0, meals |-> <<>>]
             upd == [calories |-> cur.calories
                                  + (IF "calories" \in DOMAIN meal THEN meal.calories ELSE 0),
                     count |-> cur.count + 1,
                     meals |-> Append(cur.meals, meal)]
         IN  statsLoop_fresh(Tail(ms), period, offset,
                       [k \in DOMAIN stats \cup {key} |-> IF k = key THEN upd ELSE stats[k]])

\* lines 117-139: meals.forEach over the ledger, stats being the object built
RECURSIVE statsLoop(_, _, _, _)
statsLoop(ms, period, offset, stats) ==
    IF ms = <<>> THEN stats
    ELSE LET meal == Head(ms)
             key == periodKey(meal, period, offset)
             cur == IF key \in DOMAIN stats THEN stats[key]
                    ELSE [calories |-> 0, count |-> 0, meals |-> <<>>]
             upd == [calories |-> cur.calories
                                  + (IF "calories" \in DOMAIN meal THEN meal.calories ELSE 0),
                     count |-> cur.count + 1,
                     meals |-> Append(cur.meals, meal)]
         IN  statsLoop(Tail(ms), period, offset,
                       [k \in DOMAIN stats \cup {key} |-> IF k = key THEN upd ELSE stats[k]])

getStatsByPeriod(ms, period, offset) == statsLoop(ms, period, offset, <<>>)

getMealCount == Len(getMeals)

\* three days or four weeks pass
StatsTick ==
    \E days \in {3, 28} :
        /\ ISODate(clock + days * MinPerDay) <= StatsDays
        /\ advanceClock(days * MinPerDay)

NextStats ==
    \/ DayRecord
    \/ StatsTick

SpecStats == Init /\ [][NextStats]_vars

Periods == {"daily", "weekly", "monthly"}

\* the number of buckets of stats whose meals list holds the ledger entry i
bucketsHolding(stats, i) ==
    Cardinality({k \in DOMAIN stats :
                    \E j \in 1..Len(stats[k].meals) : stats[k].meals[j] = getMeals[i]})

RECURSIVE countSum(_, _)
countSum(stats, keys) ==
    IF keys = {} THEN 0
    ELSE LET k == CHOOSE k \in keys : TRUE
         IN  stats[k].count + countSum(stats, keys \ {k})

\* C35: for each of the three periods getStatsByPeriod partitions the
\* ledger: every ledger meal is in the meals list of exactly one bucket, the
\* counts sum to getMealCount(), each bucket's calories is the sum of its
\* meals' calories, the daily key of a meal is its stored date and the
\* monthly key the year and month of that date.
C35_StatsPartition ==
    \A period \in Periods : \A offset \in TzOffsets :
        LET stats == getStatsByPeriod(getMeals, period, offset)
        IN  /\ \A i \in 1..Len(getMeals) : bucketsHolding(stats, i) = 1
            /\ countSum(stats, DOMAIN stats) = getMealCount
            /\ \A k \in DOMAIN stats :
                   /\ stats[k].calories = caloriesAt(stats[k].meals, 1..Len(stats[k].meals))
                   /\ stats[k].count = Len(stats[k].meals)
                   /\ \A j \in 1..Len(stats[k].meals) :
                          /\ period = "daily" => stats[k].meals[j].date = k
                          /\ period = "monthly" =>
                                 k = <<1970, IF stats[k].meals[j].date < 31 THEN 1 ELSE 2>>

\* two meals of one day and a meal of the following month: two daily
\* buckets, two monthly buckets
C35_Witness ==
    /\ Len(getMeals) = 3
    /\ getMeals[1].date >= 31
    /\ getMeals[2].date = getMeals[3].date /\ getMeals[3].date < 31
    /\ getMeals[2] # getMeals[3]
    /\ Cardinality(DOMAIN getStatsByPeriod(getMeals, "monthly", 0)) = 2

(***************************************************************************)
(* SpecScore: the score of a single meal (nutrition.js).                   *)
(***************************************************************************)
\* a / b compared with percent / 100 for b # 0, by the sign of b
ratioBelow(a, b, percent) == IF b > 0 THEN a * 100 < percent * b ELSE a * 100 > percent * b
ratioAbove(a, b, percent) == IF b > 0 THEN a * 100 > percent * b ELSE a * 100 < percent * b

\* nutrition.js, lines 117-142: totalCalories is the local sum of the macro
\* calories, not nutrition.calories
calculateNutritionScore(nutrition) ==
    LET totalCalories == nutrition.carbs * 4 + nutrition.protein * 4 + nutrition.fat * 9
        score == 100
                 - (IF ratioBelow(nutrition.protein * 4, totalCalories, 15) THEN 15 ELSE 0)
                 - (IF ratioAbove(nutrition.fat * 9, totalCalories, 35) THEN 20 ELSE 0)
                 - (IF nutrition.calories > 800 THEN 15 ELSE 0)
                 - (IF nutrition.sodium > 1000 THEN 20 ELSE 0)
    IN  IF totalCalories = 0 THEN 0 ELSE Max(0, Min(100, score))

\* the nutrition objects handed to evaluateNutrition
Nutritions ==
    [calories : {300, 800, 801, 1000}, carbs : {0, 50, 100}, protein : {0, 10, 30},
     fat : {0, 10, 40}, sodium : {1000, 1001}]

\* evaluateNutrition(nutrition): the score of the returned evaluation
EvaluateNutrition ==
    /\ \E nutrition \in Nutritions :
           ret' = [op |-> "evaluateNutrition", nutrition |-> nutrition,
                   score |-> calculateNutritionScore(nutrition)]
    /\ UNCHANGED <<clock, present, meals, settings, badges, achievements, fasting, granted,
                   corrupt>>

NextScore == EvaluateNutrition

SpecScore == Init /\ [][NextScore]_vars

\* the score the four stated penalties give, the fat penalty being taken on
\* fat * 9 over the calories of the meal
statedScore(n) ==
    100 - (IF ratioBelow(n.protein * 4, n.carbs * 4 + n.protein * 4 + n.fat * 9, 15)
           THEN 15 ELSE 0)
        - (IF ratioAbove(n.fat * 9, n.calories, 35) THEN 20 ELSE 0)
        - (IF n.calories > 800 THEN 15 ELSE 0)
        - (IF n.sodium > 1000 THEN 20 ELSE 0)

\* C36: calculateNutritionScore(meal) is 0 when carbs*4 + protein*4 + fat*9 is
\* 0; otherwise it is 100 minus 15 if protein calories / macro calories < 0.15,
\* minus 20 if fat*9 / the meal's calories > 0.35, minus 15 if calories > 800,
\* minus 20 if sodium > 1000; the result is within 0..100.
C36_NutritionScore ==
    ret.op = "evaluateNutrition" =>
        LET n == ret.nutrition
        IN  /\ ret.score >= 0 /\ ret.score <= 100
            /\ ret.score = IF n.carbs * 4 + n.protein * 4 + n.fat * 9 = 0 THEN 0
                           ELSE statedScore(n)

(***************************************************************************)
(* SpecInterrupt: saveMealWithAchievements writes three keys one after the *)
(* other (meals in saveMeal, achievements in updateAchievements, badges in *)
(* checkAndAwardBadges); the page can be closed between two writes.        *)
(***************************************************************************)
\* the call ends between the write of meals and the write of achievements
stoppedAfterMeals(meal) ==
    /\ meals' = unshift(getMeals, mealDataOf(meal, clock))
    /\ present' = present \cup {"meals"}
    /\ ret' = [op |-> "saveMealWithAchievements", stopped |-> "meals"]
    /\ UNCHANGED <<clock, settings, badges, achievements, fasting, granted, corrupt>>

\* the call ends between the write of achievements and the write of badges
stoppedAfterAchievements(meal) ==
    LET ms1 == unshift(getMeals, mealDataOf(meal, clock))
    IN  /\ meals' = ms1
        /\ achievements' = updatedAchievements(getAchievements, ms1, settings, meal, clock)
        /\ present' = present \cup {"meals", "achievements"}
        /\ ret' = [op |-> "saveMealWithAchievements", stopped |-> "achievements"]
        /\ UNCHANGED <<clock, settings, badges, fasting, granted, corrupt>>

InterruptMeals == {Ramyeon, ChickenSalad}

WholeRecord ==
    /\ Len(getMeals) < MaxMeals
    /\ \E meal \in InterruptMeals : saveMealWithAchievements(meal)
    /\ UNCHANGED granted

StopAfterMeals ==
    /\ Len(getMeals) < MaxMeals
    /\ \E meal \in InterruptMeals : stoppedAfterMeals(meal)

StopAfterAchievements ==
    /\ Len(getMeals) < MaxMeals
    /\ \E meal \in InterruptMeals : stoppedAfterAchievements(meal)

\* the reads of the counters: getAchievements(), getBadges(), getCurrentStreak()
ReadCounters ==
    /\ ret' = [op |-> "read", achievements |-> getAchievements,
               badges |-> BadgeIds(getBadges), streak |-> getCurrentStreak]
    /\ UNCHANGED <<clock, present, meals, settings, badges, achievements, fasting, granted,
                   corrupt>>

NextInterrupt ==
    \/ WholeRecord
    \/ StopAfterMeals
    \/ StopAfterAchievements
    \/ ReadCounters
    \/ Reload
    \/ NextDay

SpecInterrupt == Init /\ [][NextInterrupt]_vars

\* C37: saveMealWithAchievements is not atomic: a call that ends after the
\* write of meals leaves the new meal in the ledger and achievements and
\* badges as they were before the call, a call that ends after the write of
\* achievements leaves badges as they were, and no later read or page load
\* changes the ledger, the counters or the badges.
C37_NotAtomicNotRepaired ==
    [][/\ StopAfterMeals =>
              /\ getMeals' # <<>> /\ Tail(getMeals') = getMeals
              /\ Head(getMeals').id = clock
              /\ getAchievements' = getAchievements
              /\ getBadges' = getBadges
       /\ StopAfterAchievements =>
              /\ getMeals' # <<>> /\ Tail(getMeals') = getMeals
              /\ getBadges' = getBadges
       /\ (ReadCounters \/ Reload \/ NextDay) =>
              /\ getMeals' = getMeals
              /\ getAchievements' = getAchievements
              /\ getBadges' = getBadges]_vars

\* after a page load the ledger holds one meal of today that would have
\* counted for the streak, the vegetable and the protein counter, and the
\* counters are as before that meal
C37_Witness ==
    /\ ret = [op |-> "constructor"]
    /\ Len(getMeals) = 1
    /\ getMeals[1].name = "dak-gaseumsal saelleodeu"
    /\ getMeals[1].date = ISODate(clock)
    /\ getCurrentStreak = 1
    /\ getAchievements = initialAchievements

(***************************************************************************)
(* SpecFrame: the writers of the ledger and of the settings, and the       *)
(* queries, next to the one operation that advances the counters.          *)
(***************************************************************************)
QueryNames == {"getCurrentStreak", "calculateWeeklyNutritionScore", "getBadges",
               "getAchievements", "getTodayMeals", "getStatsByPeriod", "getTopFoods"}

\* what the query returns in the current state
queryValue(q) ==
    CASE q = "getCurrentStreak" -> getCurrentStreak
      [] q = "calculateWeeklyNutritionScore" -> weeklyScore
      [] q = "getBadges" -> getBadges
      [] q = "getAchievements" -> getAchievements
      [] q = "getTodayMeals" -> getTodayMeals
      [] q = "getStatsByPeriod" -> getStatsByPeriod(getMeals, "daily", 0)
      [] q = "getTopFoods" -> getTopFoods(getMeals, TopMeals)

\* a query is called: none of them has a setItem
Query ==
    /\ \E q \in QueryNames : ret' = [op |-> q, value |-> queryValue(q)]
    /\ UNCHANGED <<clock, present, meals, settings, badges, achievements, fasting, granted,
                   corrupt>>

NextFrame ==
    \/ RecordMeal
    \/ DeleteMeal
    \/ SaveSettings
    \/ ImportAny
    \/ Query
    \/ ReadFastingStatus
    \/ NextDay

SpecFrame == Init /\ [][NextFrame]_vars

\* the achievements and badges keys: whether they are written, and their values
counterKeys == <<present \cap {"achievements", "badges"}, getAchievements, getBadges>>

\* C38: deleteMeal, importData, saveSettings and every query leave the
\* achievements and badges keys unchanged; a saveMealWithAchievements call
\* advances each lifetime counter by at most one.
C38_OnlyRecordAdvances ==
    [][/\ (DeleteMeal \/ SaveSettings \/ ImportAny \/ Query \/ ReadFastingStatus)
              => counterKeys' = counterKeys
       /\ RecordMeal =>
              \A c \in {"goalAchieved", "perfectWeeks", "vegetableDays", "proteinDays"} :
                  getAchievements'[c] - getAchievements[c] \in {0, 1}]_vars

\* the ledger has been emptied by deleteMeal and the counters still show
\* the recorded meal
C38_Witness ==
    /\ "meals" \in present /\ getMeals = <<>>
    /\ ret = NoRet
    /\ getAchievements.streak = 1
    /\ getAchievements.goalAchieved = 1
    /\ getCurrentStreak = 0

(***************************************************************************)
(* The stored streak and the badges right after a recorded meal.           *)
(***************************************************************************)
\* C39: in every reachable state the stored maxStreak is >= the stored
\* streak, and right after a saveMealWithAchievements call the stored streak
\* is getCurrentStreak() and >= 1.
C39_StreakStored ==
    /\ [](getAchievements.maxStreak >= getAchievements.streak)
    /\ [][RecordDaily =>
              /\ getAchievements'.streak = getCurrentStreak'
              /\ getAchievements'.streak >= 1
              /\ getAchievements'.maxStreak = Max(getAchievements.maxStreak,
                                                  getCurrentStreak')]_vars

\* a meal recorded after a gap: the streak is 1 again, the maximum is kept
C39_Witness ==
    /\ ret.op = "saveMealWithAchievements"
    /\ getAchievements.streak = 1
    /\ getAchievements.maxStreak >= 3
    /\ Len(getMeals) >= 4

\* the value of the counter a catalog entry is compared with, after a call
counterNow(def) ==
    IF def.counter = "streak" THEN getCurrentStreak ELSE getAchievements[def.counter]

\* C40: right after a saveMealWithAchievements call every catalog badge
\* whose counter is >= its threshold is in getBadges(), and the returned
\* newBadges are exactly the ids in getBadges() after the call that were not
\* in it before, each once.
C40_BadgeGrantsExact ==
    [][RecordMeal =>
          /\ \A i \in 1..Len(getBadgeDefinitions) :
                 counterNow(getBadgeDefinitions[i])' >= getBadgeDefinitions[i].threshold
                     => getBadgeDefinitions[i].id \in EarnedIds'
          /\ Range(ret'.newBadges) = EarnedIds' \ EarnedIds
          /\ Len(ret'.newBadges) = Cardinality(Range(ret'.newBadges))]_vars

\* a call has returned perfect1 while streak3 was earned before, or the
\* other way round
C40_Witness ==
    /\ ret.op = "saveMealWithAchievements"
    /\ Len(ret.newBadges) = 1
    /\ EarnedIds = {"perfect1", "streak3"}

====
